---- MODULE Spec2Model ----
(***************************************************************************)
(* Verification model of the polypaz language-learning backend:            *)
(*   - the gamification ledger (GamificationProfile.update_streak/add_xp), *)
(*   - the task-attempt request (TaskAttemptView.post, TaskAttempt.save),  *)
(*   - the placement scorer (PlacementTestSubmitView, PlacementTestResult).*)
(*                                                                         *)
(* Numbers with two decimal places (DecimalField(decimal_places=2)) are    *)
(* integers counting hundredths.  Dates are day ordinals; day 0 is         *)
(* 2024-01-01.  Text is a sequence of one-character strings.               *)
(***************************************************************************)
EXTENDS Integers, Sequences, FiniteSets, TLC

VARIABLES
    gp,         \* the user's GamificationProfile row (committed)
    log,        \* ledger specification: the calls applied so far to gp
    today,      \* date.today() of the server clock
    inst,       \* TaskInstance rows of the user, by template (committed)
    attempts,   \* TaskAttempt rows of the user (committed), in insert order
    snap,       \* ProgressSnapshot row of the user for the module (committed)
    req,        \* per request process: its position, locals and open transaction
    nreq,       \* number of attempt requests started so far
    level,      \* UserProfile.current_cefr_level, by user
    results,    \* PlacementTestResult rows, in insert order
    sub,        \* the placement submission being handled / last handled
    mod,        \* the Module row of the user's roadmap
    checks,     \* return values of the check_completion calls, in call order
    sess,       \* the DialogueSession row (committed)
    turns,      \* DialogueTurn rows of the session, in insert order
    dlg,        \* per dialogue request process: position, locals, response
    ndlg,       \* dialogue requests started so far; also the clock reading
    cache,      \* the Django cache: text stored under each cache key
    gw,         \* the gateway: its model and the last call made to it
    roadmaps,   \* Roadmap rows with their Module rows, in insert order
    gen,        \* roadmap generation: requests made, the last response
    ev          \* an answer evaluation: its call site, inputs and result

vars == <<gp, log, today, inst, attempts, snap, req, nreq, level, results, sub,
          mod, checks, sess, turns, dlg, ndlg, cache, gw, roadmaps, gen, ev>>

ledgerVars  == <<gp, log>>
attemptVars == <<today, inst, attempts, snap, req, nreq>>
placeVars   == <<level, results, sub>>
moduleVars  == <<mod, checks>>
dialogueVars == <<sess, turns, dlg, ndlg>>
gatewayVars == <<cache, gw>>
roadmapVars == <<roadmaps, gen>>
evalVars == <<ev>>
serviceVars == <<dialogueVars, gatewayVars, roadmapVars, evalVars>>

----------------------------------------------------------------------------
(* Bounds *)

MaxDay == 3             \* dates range over 0..MaxDay
MaxOps == 4             \* ledger specification: calls applied to the profile

Dates == 0..MaxDay
XpAmounts == {3, 5}     \* amounts passed to add_xp

----------------------------------------------------------------------------
(* Small helpers *)

Max(a, b) == IF a >= b THEN a ELSE b

RECURSIVE SumSeq(_)
SumSeq(s) == IF s = <<>> THEN 0 ELSE Head(s) + SumSeq(Tail(s))

RECURSIVE SumFun(_)
SumFun(f) ==
    IF DOMAIN f = {} THEN 0
    ELSE LET k == CHOOSE x \in DOMAIN f : TRUE
         IN  f[k] + SumFun([x \in DOMAIN f \ {k} |-> f[x]])

Last(s) == s[Len(s)]

----------------------------------------------------------------------------
(* Gamification ledger: models.py GamificationProfile *)

NoDate == -1            \* last_activity_date IS NULL

\* date.isoformat(): the key of the xp_history bucket of a day
isoformat(d) == "2024-01-0" \o ToString(d + 1)

EmptyHistory == [k \in {} |-> 0]

\* A row as GamificationProfile.objects.create(user=...) stores it
FreshProfile ==
    [ exists              |-> TRUE,
      total_xp            |-> 0,
      current_streak_days |-> 0,
      longest_streak_days |-> 0,
      last_activity_date  |-> NoDate,
      xp_history          |-> EmptyHistory ]

\* the user has no GamificationProfile row yet (it is created lazily)
NoProfile == [FreshProfile EXCEPT !.exists = FALSE]

\* update_streak with the gap > 1 branch leaving the streak as it is
update_streak_keep(p, activity_date) ==
    LET days_diff == activity_date - p.last_activity_date
        q == IF p.last_activity_date = NoDate
             THEN [p EXCEPT !.current_streak_days = 1,
                            !.longest_streak_days = 1]
             ELSE IF days_diff = 1
             THEN [p EXCEPT !.current_streak_days = @ + 1,
                            !.longest_streak_days =
                                Max(@, p.current_streak_days + 1)]
             ELSE p
    IN  [q EXCEPT !.last_activity_date = activity_date]

\* update_streak without the raise of longest_streak_days
update_streak_noraise(p, activity_date) ==
    LET days_diff == activity_date - p.last_activity_date
        q == IF p.last_activity_date = NoDate
             THEN [p EXCEPT !.current_streak_days = 1,
                            !.longest_streak_days = 1]
             ELSE IF days_diff = 0 THEN p
             ELSE IF days_diff = 1
             THEN [p EXCEPT !.current_streak_days = @ + 1]
             ELSE [p EXCEPT !.current_streak_days = 1]
    IN  [q EXCEPT !.last_activity_date = activity_date]

\* GamificationProfile.update_streak: the row it saves
update_streak(p, activity_date) ==
    LET days_diff == activity_date - p.last_activity_date
        q == IF p.last_activity_date = NoDate
             THEN [p EXCEPT !.current_streak_days = 1,
                            !.longest_streak_days = 1]
             ELSE IF days_diff = 0 THEN p
             ELSE IF days_diff = 1
             THEN [p EXCEPT !.current_streak_days = @ + 1,
                            !.longest_streak_days =
                                IF p.current_streak_days + 1 > @
                                THEN p.current_streak_days + 1 ELSE @]
             ELSE [p EXCEPT !.current_streak_days = 1]
    IN  [q EXCEPT !.last_activity_date = activity_date]

\* add_xp that replaces the day's bucket instead of adding to it
add_xp_overwrite(p, xp_amount, date) ==
    LET date_str == isoformat(date)
    IN  [p EXCEPT !.total_xp = @ + xp_amount,
                  !.xp_history =
                      [k \in DOMAIN p.xp_history \cup {date_str} |->
                          IF k = date_str THEN xp_amount
                          ELSE p.xp_history[k]]]

\* GamificationProfile.add_xp: the row it saves
add_xp(p, xp_amount, date) ==
    LET date_str == isoformat(date)
    IN  [p EXCEPT !.total_xp = @ + xp_amount,
                  !.xp_history =
                      IF date_str \in DOMAIN p.xp_history
                      THEN [p.xp_history EXCEPT ![date_str] = @ + xp_amount]
                      ELSE [k \in DOMAIN p.xp_history \cup {date_str} |->
                              IF k = date_str THEN xp_amount
                              ELSE p.xp_history[k]]]

\* profile.update_streak(d) on the stored row
UpdateStreak(d) ==
    /\ Len(log) < MaxOps
    /\ gp' = update_streak(gp, d)
    /\ log' = Append(log, [op |-> "update_streak", date |-> d, amount |-> 0,
                           streak |-> gp'.current_streak_days])

\* profile.add_xp(amount, d) on the stored row
AddXp(amount, d) ==
    /\ Len(log) < MaxOps
    /\ gp' = add_xp(gp, amount, d)
    /\ log' = Append(log, [op |-> "add_xp", date |-> d, amount |-> amount,
                           streak |-> gp'.current_streak_days])

----------------------------------------------------------------------------
(* Text: str.lower, str.strip, re.sub(r'[^\w\s]', '', s) and                *)
(* difflib.SequenceMatcher(None, a, b).ratio() on sequences of characters. *)

Whitespace  == {" "}
Punctuation == {"!", "?"}

lower_char(c) == IF c = "A" THEN "a" ELSE IF c = "B" THEN "b" ELSE c

lower(s) == [i \in 1..Len(s) |-> lower_char(s[i])]

RECURSIVE lstrip(_)
lstrip(s) == IF s # <<>> /\ Head(s) \in Whitespace THEN lstrip(Tail(s)) ELSE s

RECURSIVE rstrip(_)
rstrip(s) ==
    IF s # <<>> /\ s[Len(s)] \in Whitespace
    THEN rstrip(SubSeq(s, 1, Len(s) - 1)) ELSE s

strip(s) == rstrip(lstrip(s))

\* re.sub(r'[^\w\s]', '', s)
remove_punctuation(s) == SelectSeq(s, LAMBDA c : c \notin Punctuation)

\* SequenceMatcher.find_longest_match: the longest common block, the
\* earliest in a and then the earliest in b among the longest
MatchBlocks(a, b) ==
    {m \in (1..Len(a)) \X (1..Len(b)) \X (1..Len(a)) :
        /\ m[1] + m[3] - 1 <= Len(a)
        /\ m[2] + m[3] - 1 <= Len(b)
        /\ SubSeq(a, m[1], m[1] + m[3] - 1) = SubSeq(b, m[2], m[2] + m[3] - 1)}

find_longest_match(a, b) ==
    CHOOSE m \in MatchBlocks(a, b) :
        \A n \in MatchBlocks(a, b) :
            \/ n[3] < m[3]
            \/ n[3] = m[3] /\ n[1] > m[1]
            \/ n[3] = m[3] /\ n[1] = m[1] /\ n[2] >= m[2]

\* the number of matched characters of SequenceMatcher.get_matching_blocks
RECURSIVE matches(_, _)
matches(a, b) ==
    IF MatchBlocks(a, b) = {} THEN 0
    ELSE LET m == find_longest_match(a, b)
         IN  m[3]
             + matches(SubSeq(a, 1, m[1] - 1), SubSeq(b, 1, m[2] - 1))
             + matches(SubSeq(a, m[1] + m[3], Len(a)),
                       SubSeq(b, m[2] + m[3], Len(b)))

\* SequenceMatcher(None, a, b).ratio() >= 0.8, i.e. 2*M/T >= 4/5
similar(a, b) ==
    IF Len(a) + Len(b) = 0 THEN TRUE
    ELSE 10 * matches(a, b) >= 4 * (Len(a) + Len(b))

----------------------------------------------------------------------------
(* Task attempts: views.py TaskAttemptView, models.py TaskAttempt.save.    *)
(*                                                                         *)
(* A request is a process that executes its ORM statements one at a time.  *)
(* The statements inside `with transaction.atomic()` write to the          *)
(* transaction of the request: other requests see the rows only after the  *)
(* commit (READ COMMITTED), and an UPDATE of a row that another open       *)
(* transaction has written waits for that transaction to end.  The code    *)
(* takes no lock of its own (no select_for_update, no F() expression).     *)

MaxRequests == 3        \* attempt requests started in one behaviour

Procs == {1, 2}

\* Python values, by type
None == [type |-> "None", value |-> <<>>]
Bool(b) == [type |-> "bool", value |-> b]
Number(n) == [type |-> "number", value |-> n]
Str(s) == [type |-> "str", value |-> s]
List(s) == [type |-> "list", value |-> s]
Dict(f) == [type |-> "dict", value |-> f]

\* `not value`
falsy(v) ==
    \/ v.type = "None"
    \/ v.type = "dict" /\ DOMAIN v.value = {}
    \/ v.type = "list" /\ v.value = <<>>
    \/ v.type = "str" /\ v.value = ""
    \/ v.type = "number" /\ v.value = 0
    \/ v.type = "bool" /\ ~v.value

\* what a function call gives: a returned value or a raised exception
Return(v) == [raised |-> FALSE, value |-> v]
Raise(e) == [raised |-> TRUE, value |-> Str(e)]

\* TaskTemplate rows of the user's module
Templates ==
    [ t1 |-> [task_type |-> "multiple_choice", correct_answer |-> <<"a">>,
              difficulty_level |-> 1, question |-> "question 1",
              rule_explanation |-> "rule 1",
              example_contrast |-> "contrast 1"],
      t2 |-> [task_type |-> "fill_blank", correct_answer |-> <<"a", "!">>,
              difficulty_level |-> 2, question |-> "question 2",
              rule_explanation |-> "", example_contrast |-> ""] ]

TemplateIds == DOMAIN Templates

\* user_answer values that pass TaskAttemptSubmitSerializer
UserAnswers == { <<"A">>, <<"a", "?">>, <<"b">> }

\* TaskAttemptView._evaluate_answer
_evaluate_answer(user_answer, correct_answer, task_type) ==
    LET ua == strip(lower(user_answer))
        ca == strip(lower(correct_answer))
    IN  IF task_type = "multiple_choice" THEN ua = ca
        ELSE IF task_type = "fill_blank"
        THEN remove_punctuation(ua) = remove_punctuation(ca)
        ELSE IF task_type = "translation" THEN similar(ua, ca)
        ELSE FALSE

\* `text or default` for a str
or_else(text, default) == IF text = "" THEN default ELSE text

\* TaskAttempt.feedback before anything is put in it (default=dict)
NoFeedback == Dict([k \in {} |-> None])

\* views.py 1-30, 197, 602, 723, 848: gemini_service is bound only as a
\* local name of the three post methods; _generate_feedback looks the name
\* up among the globals of views.py, where it is not, so evaluating the
\* call there raises
gemini_service_generate_task_feedback == Raise("NameError")

\* views.py 691-738; ai_feedback is what evaluating the call
\* gemini_service.generate_task_feedback(...) at line 723 gives
_generate_feedback(task_template, user_answer, is_correct, use_ai, ai_feedback) ==
    LET positive ==
            [ message |-> Str("Correct! Well done!"),
              is_correct |-> Bool(TRUE),
              correct_answer |-> Str(task_template.correct_answer),
              rule |-> Str(or_else(task_template.rule_explanation,
                                   "Great job!")),
              example_contrast |->
                  Str(or_else(task_template.example_contrast, "")) ]
        feedback ==
            [ message |-> Str("Not quite right. Here's some help:"),
              is_correct |-> Bool(FALSE),
              correct_answer |-> Str(task_template.correct_answer),
              rule |-> Str(or_else(task_template.rule_explanation, "")),
              example_contrast |->
                  Str(or_else(task_template.example_contrast, "")) ]
        ai == ai_feedback.value
        taken == {"rule", "example_contrast", "tip"} \cap DOMAIN ai.value
        updated ==
            [ k \in DOMAIN feedback \cup (taken \cap {"tip"}) |->
                  IF k \in taken THEN ai.value[k] ELSE feedback[k] ]
    IN  IF is_correct THEN Dict(positive)
        ELSE IF ~use_ai \/ ai_feedback.raised \/ falsy(ai) \/ ai.type # "dict"
        THEN Dict(feedback)
        ELSE Dict(updated)

\* xp_gained that awards the base XP whatever the difficulty
xp_on_save_flat(is_correct, xp_gained, difficulty_level) ==
    IF is_correct /\ xp_gained = 0 THEN 10 ELSE xp_gained

\* TaskAttempt.save, lines 466-469: xp_gained of the row that is saved
xp_on_save(is_correct, xp_gained, difficulty_level) ==
    IF is_correct /\ xp_gained = 0 THEN 10 * difficulty_level ELSE xp_gained

\* TaskInstance row before get_or_create has created it
NoInstance ==
    [ exists |-> FALSE, status |-> "pending", attempts_count |-> 0,
      best_attempt_correct |-> FALSE ]

\* TaskInstance created by get_or_create(defaults={'status': 'in_progress'})
NewInstance == [NoInstance EXCEPT !.exists = TRUE, !.status = "in_progress"]

\* TaskAttempt.save, lines 473-484: the instance row it saves
instance_on_save(instance, is_correct) ==
    [instance EXCEPT
        !.attempts_count = @ + 1,
        !.best_attempt_correct = IF is_correct THEN TRUE ELSE @,
        !.status = IF is_correct THEN "completed" ELSE "in_progress"]

\* the award that overwrites the total instead of adding to it
award_xp_set(profile, xp_gained) == [profile EXCEPT !.total_xp = xp_gained]

\* TaskAttempt.save, line 492: the profile row it saves
award_xp(profile, xp_gained) == [profile EXCEPT !.total_xp = @ + xp_gained]

NoSnapshot ==
    [ exists |-> FALSE, tasks_attempted |-> 0, tasks_completed |-> 0,
      accuracy_percentage |-> 0, last_activity_date |-> NoDate ]

\* n/d rounded to the nearest integer, ties to even (decimal ROUND_HALF_EVEN)
RoundHalfEven(n, d) ==
    LET q == n \div d
        r == n % d
    IN  IF 2 * r < d THEN q
        ELSE IF 2 * r > d THEN q + 1
        ELSE IF q % 2 = 0 THEN q ELSE q + 1

NoAttempt ==
    [ task |-> "t1", user_answer |-> <<>>, is_correct |-> FALSE,
      feedback |-> NoFeedback, xp_gained |-> 0 ]

NoTx == [ attempt |-> <<>>, inst |-> <<>>, gp |-> <<>>, snap |-> <<>> ]

IdleRequest ==
    [ pc |-> "idle", task |-> "t1", attempt |-> NoAttempt,
      task_instance |-> NoInstance, profile |-> NoProfile, tx |-> NoTx ]

----------------------------------------------------------------------------
(* Placement tests: views.py PlacementTestSubmitView, models.py            *)
(* PlacementTestResult.save.  A percentage computed in memory is the exact *)
(* ratio n/d (Decimal keeps 28 digits, far more than two-decimal weights   *)
(* need to compare against a band limit); a stored percentage is a         *)
(* DecimalField with two decimal places, i.e. a number of hundredths.      *)

MaxSubmissions == 2     \* placement results stored in one behaviour
MaxHundredths == 10050  \* band specification: percentages 0.00 .. 100.50

Users == {"u1", "u2"}

\* UserProfile.target_language of the users
TargetLanguage == [u1 |-> "kazakh", u2 |-> "english"]

\* The active placement tests (one per language) with their items in order:
\* three equal weights, weights that hit the band limits 20 and 80,
\* a test without items, and a test whose only item has weight 0.
PlacementTests ==
    [ k |-> [ language |-> "kazakh",
              items |-> << [item_type |-> "multiple_choice",
                            correct_answer |-> <<"a">>,
                            difficulty_weight |-> 100],
                           [item_type |-> "cloze",
                            correct_answer |-> <<"A", " ">>,
                            difficulty_weight |-> 100],
                           [item_type |-> "translation",
                            correct_answer |-> <<"a">>,
                            difficulty_weight |-> 100] >> ],
      e |-> [ language |-> "english",
              items |-> << [item_type |-> "cloze",
                            correct_answer |-> <<"a">>,
                            difficulty_weight |-> 20],
                           [item_type |-> "multiple_choice",
                            correct_answer |-> <<"a">>,
                            difficulty_weight |-> 80] >> ],
      r |-> [ language |-> "russian", items |-> << >> ],
      s |-> [ language |-> "spanish",
              items |-> << [item_type |-> "multiple_choice",
                            correct_answer |-> <<"a">>,
                            difficulty_weight |-> 0] >> ] ]

TestIds == DOMAIN PlacementTests

\* raw answer texts of a submission; <<>> is also what answers.get(id, '')
\* gives for an item without answer
AnswerTexts == { <<>>, <<" ", "A">>, <<"b">> }

AnswerMaps(t) == [1..Len(PlacementTests[t].items) -> AnswerTexts]

\* answer maps that give the canonical answer for the first j items only
PrefixAnswerMaps(t) ==
    { [k \in 1..Len(PlacementTests[t].items) |->
          IF k <= j THEN PlacementTests[t].items[k].correct_answer ELSE <<>>] :
      j \in 0..Len(PlacementTests[t].items) }

Bands == <<"A0", "A1", "A2", "B1", "B2", "C1", "C2">>

\* PlacementTestSubmitView._validate_answer
_validate_answer(user_answer, correct_answer, item_type) ==
    IF user_answer = <<>> THEN FALSE
    ELSE IF item_type = "multiple_choice" THEN user_answer = correct_answer
    ELSE IF item_type = "cloze" THEN user_answer = correct_answer
    ELSE IF item_type = "translation" THEN user_answer = correct_answer
    ELSE FALSE

NoEvaluation ==
    [ pc |-> "idle", site |-> "task", kind |-> "multiple_choice",
      user_answer |-> <<>>, correct_answer |-> <<>>, result |-> FALSE ]

\* views.py 114-119: what the placement view does with the answer given
\* to an item of kind ev.kind whose canonical answer is ev.correct_answer
EvaluatePlacementAnswer ==
    /\ ev.pc = "input"
    /\ ev.site = "placement"
    /\ LET user_answer == lower(strip(ev.user_answer))
           correct_answer == lower(strip(ev.correct_answer))
       IN  ev' = [ev EXCEPT !.pc = "done",
                            !.result = _validate_answer(user_answer,
                                           correct_answer, ev.kind)]

\* serializers.py 185-189, views.py 628-640: what the attempt view does
\* with the answer given to a task of kind ev.kind; the CharField trims
\* the answer and turns down a blank one
EvaluateTaskAnswer ==
    /\ ev.pc = "input"
    /\ ev.site = "task"
    /\ LET user_answer == strip(ev.user_answer)
       IN  ev' = IF user_answer = <<>> THEN [ev EXCEPT !.pc = "rejected"]
                 ELSE [ev EXCEPT !.pc = "done",
                                 !.result = _evaluate_answer(user_answer,
                                                ev.correct_answer, ev.kind)]

\* the band lookup with the limit 20 excluded from A0
_percentage_to_cefr_strict(percentage) ==
    IF percentage.n < 20 * percentage.d THEN "A0"
    ELSE IF percentage.n <= 35 * percentage.d THEN "A1"
    ELSE IF percentage.n <= 50 * percentage.d THEN "A2"
    ELSE IF percentage.n <= 65 * percentage.d THEN "B1"
    ELSE IF percentage.n <= 80 * percentage.d THEN "B2"
    ELSE IF percentage.n <= 90 * percentage.d THEN "C1"
    ELSE "C2"

\* PlacementTestSubmitView._percentage_to_cefr, on the percentage n/d
_percentage_to_cefr(percentage) ==
    IF percentage.n <= 20 * percentage.d THEN "A0"
    ELSE IF percentage.n <= 35 * percentage.d THEN "A1"
    ELSE IF percentage.n <= 50 * percentage.d THEN "A2"
    ELSE IF percentage.n <= 65 * percentage.d THEN "B1"
    ELSE IF percentage.n <= 80 * percentage.d THEN "B2"
    ELSE IF percentage.n <= 90 * percentage.d THEN "C1"
    ELSE "C2"

\* the loop of _calculate_results over items[1..k]: <<score, max_score>>
RECURSIVE score_items(_, _, _)
score_items(items, answers, k) ==
    IF k = 0 THEN <<0, 0>>
    ELSE LET acc == score_items(items, answers, k - 1)
             item == items[k]
             user_answer == strip(lower(answers[k]))
             correct_answer == strip(lower(item.correct_answer))
         IN  << acc[1] + (IF _validate_answer(user_answer, correct_answer,
                                              item.item_type)
                          THEN item.difficulty_weight ELSE 0),
                acc[2] + item.difficulty_weight >>

\* _calculate_results whose max_score counts only the answered items
_calculate_results_answered(t, answers) ==
    LET items == PlacementTests[t].items
        score == score_items(items, answers, Len(items))[1]
        answered == {k \in 1..Len(items) : answers[k] # <<>>}
        max_score == SumSeq([k \in 1..Len(items) |->
                        IF k \in answered THEN items[k].difficulty_weight
                        ELSE 0])
        percentage == IF max_score > 0
                      THEN [n |-> score * 100, d |-> max_score]
                      ELSE [n |-> 0, d |-> 1]
    IN  [ score |-> score, max_score |-> max_score,
          estimated_level |-> _percentage_to_cefr(percentage) ]

\* PlacementTestSubmitView._calculate_results
_calculate_results(t, answers) ==
    LET items == PlacementTests[t].items
        acc == score_items(items, answers, Len(items))
        score == acc[1]
        max_score == acc[2]
        percentage == IF max_score > 0
                      THEN [n |-> score * 100, d |-> max_score]
                      ELSE [n |-> 0, d |-> 1]
    IN  [ score |-> score, max_score |-> max_score,
          estimated_level |-> _percentage_to_cefr(percentage) ]

NoPercentage == -1      \* the percentage attribute is None

\* PlacementTestResult.save, lines 143-144, and the two-decimal column: the
\* percentage of the row, or None when save leaves the attribute unset
percentage_on_save(score, max_score) ==
    IF max_score > 0 THEN RoundHalfEven(score * 10000, max_score)
    ELSE NoPercentage

\* the profile update that ignores the language of the test
level_on_save_any(current, target_language, language, estimated_level) ==
    estimated_level

\* PlacementTestResult.save, lines 148-151: the level the profile then has
level_on_save(current, target_language, language, estimated_level) ==
    IF target_language = language THEN estimated_level ELSE current

NoSubmission ==
    [ pc |-> "idle", user |-> "u1", test |-> "r", answers |-> << >>,
      percentage |-> [n |-> 0, d |-> 1], band |-> "A0" ]

\* views.py 64-86, models.py 141-145: the answers are scored and the result
\* row is inserted; a row without percentage violates NOT NULL and the
\* request ends with that error
SubmitPlacement(u, t, answers) ==
    /\ sub.pc \in {"idle", "done", "error"}
    /\ Len(results) < MaxSubmissions
    /\ LET c == _calculate_results(t, answers)
           row == [ user |-> u, test |-> t, score |-> c.score,
                    max_score |-> c.max_score,
                    percentage |-> percentage_on_save(c.score, c.max_score),
                    estimated_cefr_level |-> c.estimated_level,
                    answers |-> answers ]
       IN  IF row.percentage = NoPercentage
           THEN /\ results' = results
                /\ sub' = [NoSubmission EXCEPT !.pc = "error", !.user = u,
                              !.test = t, !.answers = answers,
                              !.band = c.estimated_level]
           ELSE /\ results' = Append(results, row)
                /\ sub' = [NoSubmission EXCEPT !.pc = "saved", !.user = u,
                              !.test = t, !.answers = answers,
                              !.band = c.estimated_level]
    /\ UNCHANGED level

\* models.py 147-151, views.py 88-90: the profile of the user is fetched,
\* its level overwritten if the languages match, and the result returned
UpdateLevel ==
    /\ sub.pc = "saved"
    /\ level' = [level EXCEPT ![sub.user] =
                    level_on_save(@, TargetLanguage[sub.user],
                                  PlacementTests[sub.test].language,
                                  Last(results).estimated_cefr_level)]
    /\ sub' = [sub EXCEPT !.pc = "done"]
    /\ UNCHANGED results

\* Band specification: _percentage_to_cefr applied to a percentage
ComputeBand ==
    /\ sub.pc = "input"
    /\ sub' = [sub EXCEPT !.pc = "output",
                          !.band = _percentage_to_cefr(sub.percentage)]
    /\ UNCHANGED <<level, results>>

----------------------------------------------------------------------------
(* Modules: models.py Module.  A checkpoint_criteria dict is a function    *)
(* from its keys; accuracy_threshold is held in hundredths (0.85 is 85),   *)
(* so that threshold * 100, the required accuracy in percent, is the same  *)
(* number.  An accuracy computed in memory is the exact ratio n/d.         *)

NoTimestamp == -1       \* completed_at IS NULL

EmptyCriteria == [k \in {} |-> 0]

\* views.py 251-254: the criteria a generated module gets by default
DefaultCriteria == [accuracy_threshold |-> 85, min_tasks_completed |-> 10]

\* models.py 236-248: a module as created, with the given criteria and tasks
NewModule(criteria, tasks) ==
    [ checkpoint_criteria |-> criteria, tasks |-> tasks,
      is_completed |-> FALSE, completed_at |-> NoTimestamp ]

\* dict.get(key, default)
get(d, key, default) == IF key \in DOMAIN d THEN d[key] ELSE default

----------------------------------------------------------------------------
(* AI gateway: utils/gemini_service.py.  A Python value is a record of its *)
(* type and content.  A response text is described by its parts: an        *)
(* opening marker, the document between the markers and a closing marker;  *)
(* the document either is valid JSON, with the value json.loads gives, or  *)
(* is not.  A marker is written [fence] for its three backquotes.          *)

NoDoc == [valid |-> FALSE, json |-> None]

\* the empty string
EmptyText ==
    Str([empty |-> TRUE, open |-> "", doc |-> NoDoc, close |-> ""])

\* a non-empty text
Text(open, doc, close) ==
    Str([empty |-> FALSE, open |-> open, doc |-> doc, close |-> close])

\* `if text:` for a text or None
truthy(text) == text.type = "str" /\ ~text.value.empty

Json(v) == [valid |-> TRUE, json |-> v]

\* gemini_service.py 31-34: the cache key of a prompt and its parameters
\* (the hashed data; two different data are taken to hash differently)
_get_cache_key(prompt, params) == <<prompt, params>>

EmptyCache == [k \in {} |-> EmptyText]

\* cache.set(key, text, timeout)
cache_set(c, key, text) ==
    [k \in DOMAIN c \cup {key} |-> IF k = key THEN text ELSE c[k]]

\* what the provider does with a request: it fails, or answers with a text
ProviderError == [raises |-> TRUE, text |-> EmptyText]
Answers(text) == [raises |-> FALSE, text |-> text]

\* gemini_service.py 36-94: the returned value, the cache afterwards and
\* whether the cache was read, written and the provider invoked
generate_content(has_model, c, prompt, use_cache, outcome) ==
    LET cache_key == _get_cache_key(prompt, <<>>)
        quiet == [ result |-> Return(None), cache |-> c, key |-> cache_key,
                   cache_read |-> FALSE,
                   cache_written |-> FALSE, provider_called |-> FALSE ]
    IN  IF ~has_model THEN quiet
        ELSE IF use_cache /\ cache_key \in DOMAIN c /\ truthy(c[cache_key])
        THEN [quiet EXCEPT !.result = Return(c[cache_key]),
                           !.cache_read = TRUE]
        ELSE IF outcome.raises
        THEN [quiet EXCEPT !.cache_read = use_cache,
                           !.provider_called = TRUE]
        ELSE IF use_cache /\ truthy(outcome.text)
        THEN [ result |-> Return(outcome.text),
               cache |-> cache_set(c, cache_key, outcome.text),
               key |-> cache_key,
               cache_read |-> TRUE, cache_written |-> TRUE,
               provider_called |-> TRUE ]
        ELSE [quiet EXCEPT !.result = Return(outcome.text),
                           !.cache_read = use_cache,
                           !.provider_called = TRUE]

\* `key in data`: for a dict its keys, for a list its elements, for a str
\* its substrings (the strings used here contain a key only when equal to
\* it); any other value is not iterable
contains(data, key) ==
    CASE data.type = "dict" -> Return(key \in DOMAIN data.value)
      [] data.type = "list" ->
             Return(\E i \in 1..Len(data.value) :
                        /\ data.value[i].type = "str"
                        /\ data.value[i].value = key)
      [] data.type = "str" -> Return(data.value = key)
      [] OTHER -> Raise("TypeError")

NoSchema == [present |-> FALSE, required |-> <<>>]
Schema(required) == [present |-> TRUE, required |-> required]

\* gemini_service.py 157-174, from required key number k on
RECURSIVE validate_from(_, _, _)
validate_from(data, required, k) ==
    IF k > Len(required) THEN Return(TRUE)
    ELSE LET found == contains(data, required[k])
         IN  IF found.raised THEN found
             ELSE IF ~found.value THEN Return(FALSE)
             ELSE validate_from(data, required, k + 1)

_validate_schema(data, schema) == validate_from(data, schema.required, 1)

\* gemini_service.py 132-141: the markers are cut off and the rest parsed;
\* an opening marker other than the two looked for leaves its tail behind
loads(text) ==
    LET parts == text.value
        tail == IF parts.open \in {"", "[fence]", "[fence]json"} THEN "" ELSE "tail"
    IN  IF tail = "" /\ parts.close \in {"", "[fence]"} /\ parts.doc.valid
        THEN Return(parts.doc.json)
        ELSE Raise("JSONDecodeError")

JsonInstruction == "Please respond with valid JSON only."

\* gemini_service.py 96-155: as generate_content, with the parsed value
generate_json(has_model, c, prompt, schema, use_cache, outcome) ==
    LET json_prompt == Append(prompt, JsonInstruction)
        got == generate_content(has_model, c, json_prompt, use_cache, outcome)
        response_text == got.result.value
        parsed == loads(response_text)
        valid == _validate_schema(parsed.value, schema)
    IN  IF ~truthy(response_text) THEN [got EXCEPT !.result = Return(None)]
        ELSE IF parsed.raised THEN [got EXCEPT !.result = Return(None)]
        ELSE IF ~schema.present \/ schema.required = <<>>
        THEN [got EXCEPT !.result = Return(parsed.value)]
        ELSE IF valid.raised THEN [got EXCEPT !.result = valid]
        ELSE IF ~valid.value THEN [got EXCEPT !.result = Return(None)]
        ELSE [got EXCEPT !.result = Return(parsed.value)]

\* gemini_service.py 176-232
generate_roadmap(has_model, c, language, cefr_level, modules_count, outcome) ==
    generate_json(has_model, c,
                  <<"roadmap", ToString(modules_count), language, cefr_level>>,
                  Schema(<<"modules">>), TRUE, outcome)

\* gemini_service.py 234-287
generate_task_feedback(has_model, c, user_answer, correct_answer, task_type, context, outcome) ==
    generate_json(has_model, c,
                  <<"feedback", task_type, user_answer, correct_answer, context>>,
                  Schema(<<"rule", "example_contrast">>), TRUE, outcome)

\* the dialogue flow with the cache in use
generate_dialogue_response_cached(has_model, c, scenario_context, conversation_history, user_message, target_language, cefr_level, outcome) ==
    generate_json(has_model, c,
                  <<"dialogue", scenario_context, conversation_history,
                    user_message, target_language, cefr_level>>,
                  Schema(<<"ai_response", "corrections">>), TRUE, outcome)

\* gemini_service.py 289-356
generate_dialogue_response(has_model, c, scenario_context, conversation_history, user_message, target_language, cefr_level, outcome) ==
    generate_json(has_model, c,
                  <<"dialogue", scenario_context, conversation_history,
                    user_message, target_language, cefr_level>>,
                  Schema(<<"ai_response", "corrections">>), FALSE, outcome)

\* the module list, the feedback and the dialogue reply a provider gives
\* when it answers as asked
AiModule(title) ==
    Dict([ title |-> Str(title), description |-> Str("ai description"),
           objectives |-> List(<<Str("ai objective")>>),
           checkpoint_criteria |->
               Dict([accuracy_threshold |-> 85, min_tasks_completed |-> 10]) ])

AiRoadmap == Dict([modules |-> List(<<AiModule("ai 1"), AiModule("ai 2")>>)])

AiFeedback ==
    Dict([ rule |-> Str("ai rule"), example_contrast |-> Str("ai contrast"),
           tip |-> Str("ai tip") ])

AiReply ==
    Dict([ ai_response |-> Str("ai reply"),
           corrections |-> List(<<Str("ai correction")>>),
           reformulation |-> Str("ai reformulation") ])

\* the failures of the provider: an exception, an empty text, a text that is
\* not JSON (plain, or behind an unknown marker), JSON that is not an
\* object, an object without the required keys
FailureOutcomes ==
    { ProviderError,
      Answers(EmptyText),
      Answers(Text("", NoDoc, "")),
      Answers(Text("[fence]js", Json(AiRoadmap), "[fence]")),
      Answers(Text("", Json(Number(5)), "")),
      Answers(Text("", Json(List(<<Str("modules")>>)), "")),
      Answers(Text("[fence]json", Json(Dict([other |-> Str("x")])), "[fence]")) }

NoCall ==
    [ has_model |-> TRUE, ncalls |-> 0, op |-> "none", use_cache |-> FALSE,
      outcome |-> ProviderError, key |-> <<>>, result |-> Return(None),
      cache_read |-> FALSE, cache_written |-> FALSE,
      provider_called |-> FALSE ]

----------------------------------------------------------------------------
(* Dialogue: views.py DialogueSessionStartView, DialogueMessageView,       *)
(* DialogueSessionEndView; models.py DialogueSession, DialogueTurn.  One   *)
(* session of one user is followed; a response is its HTTP status and the  *)
(* kind of its body.                                                       *)

MaxMessages == 4        \* dialogue requests started in one behaviour

ScenarioMaxTurns == {0, 1, 2}    \* max_turns of the scenarios

NoSession ==
    [ exists |-> FALSE, status |-> "active", turn_count |-> 0,
      ended_at |-> NoTimestamp, max_turns |-> 0 ]

\* the request bodies sent: with a message, and without the message field
MessageBodies ==
    { [has_message |-> TRUE, message |-> "hello"],
      [has_message |-> FALSE, message |-> ""] }

NoResponse == [status |-> 0, body |-> "none"]
Created == [status |-> 201, body |-> "turn"]
Ok == [status |-> 200, body |-> "session"]
NotFound == [status |-> 404, body |-> "detail"]
RejectedTurn == [status |-> 400, body |-> "detail"]
ValidationError == [status |-> 400, body |-> "field errors"]
ServerError == [status |-> 500, body |-> "none"]

\* views.py 890-894: the reply used when the gateway gives nothing
FallbackReply ==
    Dict([ ai_response |-> Str("I understand. Please continue."),
           corrections |-> List(<<>>), reformulation |-> Str("") ])

IdleMessage ==
    [ pc |-> "idle", op |-> "none", session |-> NoSession, message |-> "",
      history |-> <<>>, ai_data |-> None, response |-> NoResponse ]

\* the check that looks at the status only
can_add_turn_any(session) == session.status = "active"

\* models.py 584-586
can_add_turn(session) ==
    session.status = "active" /\ session.turn_count < session.max_turns

\* the completion that leaves ended_at as it is
complete_session_unstamped(session, now) ==
    [session EXCEPT !.status = "completed"]

\* models.py 588-593: the session row complete_session saves
complete_session(session, now) ==
    [session EXCEPT !.status = "completed", !.ended_at = now]

\* views.py 804-825: a session on a scenario is started
StartSession(max_turns) ==
    /\ ~sess.exists
    /\ sess' = [NoSession EXCEPT !.exists = TRUE, !.max_turns = max_turns]
    /\ UNCHANGED <<turns, dlg, ndlg>>

\* views.py 911-918: the messages and replies of the stored turns
_get_conversation_history(rows) ==
    [i \in 1..Len(rows) |->
        [user |-> rows[i].user_message, assistant |-> rows[i].ai_response]]

\* views.py 847-877: the session is looked up among the active ones,
\* checked for room, the body validated and the history read
MessageRead(p, body) ==
    /\ dlg[p].pc = "idle"
    /\ ndlg < MaxMessages
    /\ ndlg' = ndlg + 1
    /\ LET start == [IdleMessage EXCEPT !.op = "message"]
       IN  dlg' = [dlg EXCEPT ![p] =
               IF ~sess.exists \/ sess.status # "active"
               THEN [start EXCEPT !.response = NotFound]
               ELSE IF ~can_add_turn(sess)
               THEN [start EXCEPT !.response = RejectedTurn]
               ELSE IF ~body.has_message
               THEN [start EXCEPT !.response = ValidationError]
               ELSE [start EXCEPT !.pc = "generate", !.session = sess,
                                  !.message = body.message,
                                  !.history = _get_conversation_history(turns)]]
    /\ UNCHANGED <<sess, turns>>

\* the record of a gateway call kept in gw
called(op, use_cache, outcome, got) ==
    [ has_model |-> gw.has_model, ncalls |-> gw.ncalls + 1, op |-> op,
      use_cache |-> use_cache, outcome |-> outcome, key |-> got.key,
      result |-> got.result, cache_read |-> got.cache_read,
      cache_written |-> got.cache_written,
      provider_called |-> got.provider_called ]

\* views.py 879-894: the gateway is asked for a reply; nothing usable
\* gives the placeholder reply, an exception ends the request
MessageGenerate(p, outcome) ==
    /\ dlg[p].pc = "generate"
    /\ LET got == generate_dialogue_response(gw.has_model, cache,
                      "scenario context", dlg[p].history, dlg[p].message,
                      "kazakh", level["u1"], outcome)
       IN  /\ cache' = got.cache
           /\ gw' = called("generate_dialogue_response", FALSE, outcome, got)
           /\ dlg' = [dlg EXCEPT ![p] =
                  IF got.result.raised
                  THEN [@ EXCEPT !.pc = "idle", !.response = ServerError]
                  ELSE [@ EXCEPT !.pc = "save",
                                 !.ai_data = IF falsy(got.result.value)
                                             THEN FallbackReply
                                             ELSE got.result.value]]
    /\ UNCHANGED <<sess, turns, ndlg>>

\* dict.get(key, default) on a Python dict
dict_get(d, key, default) ==
    IF key \in DOMAIN d.value THEN d.value[key] ELSE default

\* views.py 896-909, models.py 633-645: the turn is inserted under the
\* number after the turn count read with the session; DialogueTurn.save
\* then counts the turns and saves that session object, completed when the
\* count has reached max_turns.  A reply that is not a dict and a turn
\* number already stored raise, which ends the request with nothing stored.
MessageSave(p) ==
    /\ dlg[p].pc = "save"
    /\ LET session == dlg[p].session
           ai_data == dlg[p].ai_data
           turn_number == session.turn_count + 1
           failed == \/ ai_data.type # "dict"
                     \/ \E i \in 1..Len(turns) :
                            turns[i].turn_number = turn_number
           turn == [ turn_number |-> turn_number,
                     user_message |-> dlg[p].message,
                     ai_response |-> dict_get(ai_data, "ai_response", Str("")),
                     corrections |-> dict_get(ai_data, "corrections", List(<<>>)),
                     reformulation |->
                         dict_get(ai_data, "reformulation", Str("")) ]
           counted == [session EXCEPT !.turn_count = Len(turns) + 1]
       IN  IF failed
           THEN /\ dlg' = [dlg EXCEPT ![p].pc = "idle",
                                      ![p].response = ServerError]
                /\ UNCHANGED <<sess, turns>>
           ELSE /\ turns' = Append(turns, turn)
                /\ sess' = IF counted.turn_count >= counted.max_turns
                           THEN complete_session(counted, ndlg)
                           ELSE counted
                /\ dlg' = [dlg EXCEPT ![p].pc = "idle",
                                      ![p].response = Created]
    /\ UNCHANGED ndlg

\* views.py 928-942: an end request on the session
EndSession(p) ==
    /\ dlg[p].pc = "idle"
    /\ ndlg < MaxMessages
    /\ ndlg' = ndlg + 1
    /\ LET start == [IdleMessage EXCEPT !.op = "end"]
       IN  IF sess.exists /\ sess.status = "active"
           THEN /\ sess' = complete_session(sess, ndlg')
                /\ dlg' = [dlg EXCEPT ![p] = [start EXCEPT !.response = Ok]]
           ELSE /\ sess' = sess
                /\ dlg' = [dlg EXCEPT ![p] =
                              [start EXCEPT !.response = NotFound]]
    /\ UNCHANGED turns

\* views.py 930-935: an end request looks the session up among the active
\* ones
EndRead(p) ==
    /\ dlg[p].pc = "idle"
    /\ ndlg < MaxMessages
    /\ ndlg' = ndlg + 1
    /\ LET start == [IdleMessage EXCEPT !.op = "end"]
       IN  dlg' = [dlg EXCEPT ![p] =
               IF sess.exists /\ sess.status = "active"
               THEN [start EXCEPT !.pc = "end", !.session = sess]
               ELSE [start EXCEPT !.response = NotFound]]
    /\ UNCHANGED <<sess, turns>>

\* views.py 937-942, models.py 588-593: complete_session saves the session
\* object the request read, every column of it
EndSave(p) ==
    /\ dlg[p].pc = "end"
    /\ sess' = complete_session(dlg[p].session, ndlg)
    /\ dlg' = [dlg EXCEPT ![p].pc = "idle", ![p].response = Ok]
    /\ UNCHANGED <<turns, ndlg>>

----------------------------------------------------------------------------
(* Roadmaps: views.py RoadmapGenerateView, models.py Roadmap, Module.  A   *)
(* roadmap row carries its module rows; thresholds are in hundredths.      *)

MaxRoadmaps == 3        \* roadmap generation requests in one behaviour

\* roadmap requests made and the last of them: its kind, its response and,
\* for a current-roadmap request, its user and the row returned
NoGeneration ==
    [ n |-> 0, op |-> "none", response |-> NoResponse, reader |-> "u1",
      returned |-> 0 ]

RoadmapCreated == [status |-> 201, body |-> "roadmap"]

\* the request bodies sent; german is not among the serializer's choices
RoadmapBodies ==
    [ language : {"english", "spanish", "german"}, cefr_level : {"A0", "B2"},
      use_ai : BOOLEAN ]

\* serializers.py 104-116
RoadmapGenerateSerializer_is_valid(body) ==
    /\ body.language \in {"kazakh", "russian", "english", "spanish"}
    /\ body.cefr_level \in {"A0", "A1", "A2", "B1", "B2", "C1", "C2"}

RoadmapModule(title, description, accuracy_threshold, min_tasks_completed) ==
    Dict([ title |-> Str(title), description |-> Str(description),
           objectives |-> List(<<Str("objective")>>),
           checkpoint_criteria |->
               Dict([ accuracy_threshold |-> accuracy_threshold,
                      min_tasks_completed |-> min_tasks_completed ]) ])

\* the fallback that has no module
_get_fallback_roadmap_empty(language, cefr_level) ==
    Dict([modules |-> List(<<>>)])

\* views.py 261-527: the template of the language and level, of three
\* modules, or else the generic three modules named after the language
_get_fallback_roadmap(language, cefr_level) ==
    LET templated ==
            \/ language = "english" /\ cefr_level \in {"A0", "A1", "B1"}
            \/ language = "kazakh" /\ cefr_level \in {"A0", "A1"}
        name == IF templated THEN language \o " " \o cefr_level \o " template"
                ELSE language \o " Module"
        about == language \o " at " \o cefr_level \o " level"
        first == IF ~templated THEN <<85, 10>>
                 ELSE IF cefr_level = "A0" THEN <<80, 8>> ELSE <<85, 12>>
    IN  Dict([modules |-> List(<<
            RoadmapModule(name \o " 1", about \o " 1", first[1], first[2]),
            RoadmapModule(name \o " 2", about \o " 2", 85, 10),
            RoadmapModule(name \o " 3", about \o " 3", 85, 10) >>)])

\* the insert that deactivates nothing
Roadmap_create_plain(rows, row) == Append(rows, row)

\* Roadmap.save, models.py 199-208: the other active roadmaps of the user
\* and language are deactivated, then the row is inserted
Roadmap_create(rows, row) ==
    Append([i \in 1..Len(rows) |->
               IF /\ row.is_active
                  /\ rows[i].user = row.user
                  /\ rows[i].language = row.language
                  /\ rows[i].is_active
               THEN [rows[i] EXCEPT !.is_active = FALSE]
               ELSE rows[i]],
           row)

\* views.py 240-252: the Module rows made from roadmap_data['modules'];
\* data that is not a dict, a modules value that is not a list and an entry
\* that is not a dict with a title and a description raise
modules_of(roadmap_data) ==
    IF roadmap_data.type # "dict" THEN Raise("TypeError")
    ELSE IF "modules" \notin DOMAIN roadmap_data.value THEN Raise("KeyError")
    ELSE LET entries == roadmap_data.value["modules"]
         IN  IF entries.type # "list" THEN Raise("TypeError")
             ELSE IF \E i \in 1..Len(entries.value) :
                         entries.value[i].type # "dict"
             THEN Raise("TypeError")
             ELSE IF \E i \in 1..Len(entries.value) :
                         ~({"title", "description"}
                               \subseteq DOMAIN entries.value[i].value)
             THEN Raise("KeyError")
             ELSE Return(
                 [ i \in 1..Len(entries.value) |->
                     [ title |-> entries.value[i].value["title"],
                       description |-> entries.value[i].value["description"],
                       objectives |->
                           dict_get(entries.value[i], "objectives", List(<<>>)),
                       order |-> i,
                       checkpoint_criteria |->
                           dict_get(entries.value[i], "checkpoint_criteria",
                               Dict([ accuracy_threshold |-> 85,
                                      min_tasks_completed |-> 10 ])) ] ])

\* views.py 196-259: one roadmap generation request of user u, from
\* validation to the response; an exception of the gateway is swallowed,
\* one raised while the rows are made rolls them back
GenerateRoadmap(u, body, outcome) ==
    /\ gen.n < MaxRoadmaps
    /\ LET got == generate_roadmap(gw.has_model, cache, body.language,
                                   body.cefr_level, 3, outcome)
           ai_response == got.result.value
           found == contains(ai_response, "modules")
           usable == /\ ~got.result.raised
                     /\ ~falsy(ai_response)
                     /\ ~found.raised
                     /\ found.value
           roadmap_data == IF body.use_ai /\ usable
                           THEN ai_response
                           ELSE _get_fallback_roadmap(body.language,
                                                      body.cefr_level)
           made == modules_of(roadmap_data)
           row == [ user |-> u, language |-> body.language,
                    cefr_level |-> body.cefr_level,
                    generated_by_ai |-> body.use_ai /\ usable,
                    roadmap_data |-> roadmap_data, is_active |-> TRUE,
                    modules |-> made.value ]
       IN  IF ~RoadmapGenerateSerializer_is_valid(body)
           THEN /\ gen' = [gen EXCEPT !.n = @ + 1, !.op = "generate",
                                    !.response = ValidationError]
                /\ UNCHANGED <<roadmaps, cache, gw>>
           ELSE /\ IF body.use_ai
                   THEN /\ cache' = got.cache
                        /\ gw' = called("generate_roadmap", TRUE, outcome, got)
                   ELSE UNCHANGED <<cache, gw>>
                /\ IF made.raised
                   THEN /\ gen' = [gen EXCEPT !.n = @ + 1, !.op = "generate",
                                            !.response = ServerError]
                        /\ UNCHANGED roadmaps
                   ELSE /\ gen' = [gen EXCEPT !.n = @ + 1, !.op = "generate",
                                            !.response = RoadmapCreated]
                        /\ roadmaps' = Roadmap_create(roadmaps, row)

RoadmapFound == [status |-> 200, body |-> "roadmap"]

\* Roadmap.objects.get(user=u, is_active=True), views.py 539: the row found,
\* DoesNotExist when there is none, MultipleObjectsReturned when several
active_roadmap(rows, u) ==
    LET found == {i \in 1..Len(rows) : rows[i].user = u /\ rows[i].is_active}
    IN  IF found = {} THEN Raise("DoesNotExist")
        ELSE IF Cardinality(found) > 1 THEN Raise("MultipleObjectsReturned")
        ELSE Return(CHOOSE i \in found : TRUE)

\* views.py 536-547: a current-roadmap request of user u; only
\* Roadmap.DoesNotExist is caught
CurrentRoadmap(u) ==
    /\ gen.n < MaxRoadmaps
    /\ LET got == active_roadmap(roadmaps, u)
       IN  gen' = [gen EXCEPT
               !.n = @ + 1, !.op = "current", !.reader = u,
               !.response = IF ~got.raised THEN RoadmapFound
                           ELSE IF got.value = Str("DoesNotExist")
                           THEN NotFound ELSE ServerError,
               !.returned = IF got.raised THEN 0 ELSE got.value]
    /\ UNCHANGED <<roadmaps, cache, gw>>

----------------------------------------------------------------------------
(* Initial database: a user with a freshly created gamification profile,   *)
(* no task instance, no attempt, no placement result.                      *)

IdleAttemptState ==
    /\ today = 0
    /\ inst = [t \in TemplateIds |-> NoInstance]
    /\ attempts = <<>>
    /\ snap = NoSnapshot
    /\ req = [p \in Procs |-> IdleRequest]
    /\ nreq = 0

IdlePlacementState ==
    /\ level = [u \in Users |-> "A0"]
    /\ results = <<>>
    /\ sub = NoSubmission

IdleModuleState ==
    /\ mod = NewModule(DefaultCriteria, TemplateIds)
    /\ checks = <<>>

IdleGatewayState ==
    /\ cache = EmptyCache
    /\ gw = NoCall

IdleServiceState ==
    /\ sess = NoSession
    /\ turns = <<>>
    /\ dlg = [p \in Procs |-> IdleMessage]
    /\ ndlg = 0
    /\ IdleGatewayState
    /\ roadmaps = <<>>
    /\ gen = NoGeneration
    /\ ev = NoEvaluation

----------------------------------------------------------------------------
(* The attempt request, statement by statement *)

\* what request p reads: its own uncommitted rows over the committed ones
VisGp(p) == IF req[p].tx.gp # <<>> THEN req[p].tx.gp[1] ELSE gp

VisInst(p, t) ==
    IF req[p].tx.inst # <<>> /\ req[p].task = t
    THEN req[p].tx.inst[1] ELSE inst[t]

VisAttempts(p) == attempts \o req[p].tx.attempt

\* a row written by another open transaction is locked until it ends
GpLocked(p)   == \E q \in Procs \ {p} : req[q].tx.gp # <<>>
InstLocked(p) == \E q \in Procs \ {p} :
                    req[q].tx.inst # <<>> /\ req[q].task = req[p].task
SnapLocked(p) == \E q \in Procs \ {p} : req[q].tx.snap # <<>>

AllIdle == \A q \in Procs : req[q].pc = "idle"

\* views.py 601-640: template lookup, validation, TaskInstance
\* get_or_create (autocommit, before the transaction), evaluation, feedback
Begin(p, t, answer) ==
    /\ req[p].pc = "idle"
    /\ nreq < MaxRequests
    /\ LET user_answer == strip(answer)
           task_instance == IF inst[t].exists THEN inst[t] ELSE NewInstance
           is_correct == _evaluate_answer(user_answer,
                             Templates[t].correct_answer, Templates[t].task_type)
           feedback == _generate_feedback(Templates[t], user_answer,
                           is_correct, TRUE,
                           gemini_service_generate_task_feedback)
       IN  /\ inst' = [inst EXCEPT ![t] = task_instance]
           /\ req' = [req EXCEPT ![p] =
                  [ pc |-> "insert", task |-> t,
                    attempt |-> [ task |-> t, user_answer |-> user_answer,
                                  is_correct |-> is_correct,
                                  feedback |-> feedback, xp_gained |-> 0 ],
                    task_instance |-> task_instance,
                    profile |-> NoProfile, tx |-> NoTx ]]
    /\ nreq' = nreq + 1
    /\ UNCHANGED <<gp, today, attempts, snap>>

\* views.py 642-648, models.py 463-471: the transaction starts, xp_gained is
\* computed and the attempt row is inserted
InsertAttempt(p) ==
    /\ req[p].pc = "insert"
    /\ LET a == [req[p].attempt EXCEPT !.xp_gained =
                    xp_on_save(req[p].attempt.is_correct, @,
                               Templates[req[p].task].difficulty_level)]
       IN  req' = [req EXCEPT ![p].attempt = a,
                              ![p].tx.attempt = <<a>>,
                              ![p].pc = "instance"]
    /\ UNCHANGED <<gp, today, inst, attempts, snap, nreq>>

\* models.py 473-484: the instance object the view fetched before the
\* transaction is counted up and saved
SaveInstance(p) ==
    /\ req[p].pc = "instance"
    /\ ~InstLocked(p)
    /\ LET i == instance_on_save(req[p].task_instance, req[p].attempt.is_correct)
       IN  req' = [req EXCEPT ![p].task_instance = i,
                              ![p].tx.inst = <<i>>,
                              ![p].pc = IF req[p].attempt.is_correct
                                        THEN "xp_read" ELSE "streak_read"]
    /\ UNCHANGED <<gp, today, inst, attempts, snap, nreq>>

\* GamificationProfile.objects.get_or_create(user=...): the row read, or
\* the row created when the user has none
GetOrCreateProfile(p, next) ==
    IF VisGp(p).exists
    THEN req' = [req EXCEPT ![p].profile = VisGp(p), ![p].pc = next]
    ELSE /\ ~GpLocked(p)
         /\ req' = [req EXCEPT ![p].profile = FreshProfile,
                               ![p].tx.gp = <<FreshProfile>>,
                               ![p].pc = next]

\* models.py 487-491
ReadProfileForXp(p) ==
    /\ req[p].pc = "xp_read"
    /\ GetOrCreateProfile(p, "xp_write")
    /\ UNCHANGED <<gp, today, inst, attempts, snap, nreq>>

\* models.py 492-493: profile.total_xp += xp_gained; profile.save()
WriteProfileXp(p) ==
    /\ req[p].pc = "xp_write"
    /\ ~GpLocked(p)
    /\ LET q == award_xp(req[p].profile, req[p].attempt.xp_gained)
       IN  req' = [req EXCEPT ![p].profile = q,
                              ![p].tx.gp = <<q>>,
                              ![p].pc = "streak_read"]
    /\ UNCHANGED <<gp, today, inst, attempts, snap, nreq>>

\* views.py 651-653
ReadProfileForStreak(p) ==
    /\ req[p].pc = "streak_read"
    /\ GetOrCreateProfile(p, "streak_write")
    /\ UNCHANGED <<gp, today, inst, attempts, snap, nreq>>

\* views.py 654: gamification_profile.update_streak(date.today())
WriteStreak(p) ==
    /\ req[p].pc = "streak_write"
    /\ ~GpLocked(p)
    /\ LET q == update_streak(req[p].profile, today)
       IN  req' = [req EXCEPT ![p].profile = q,
                              ![p].tx.gp = <<q>>,
                              ![p].pc = "snapshot"]
    /\ UNCHANGED <<gp, today, inst, attempts, snap, nreq>>

\* views.py 657, 740-767 and models.py 697-715: the progress snapshot
UpdateSnapshot(p) ==
    /\ req[p].pc = "snapshot"
    /\ ~SnapLocked(p)
    /\ LET seen == VisAttempts(p)
           total_attempts == Len(seen)
           correct_attempts == Len(SelectSeq(seen, LAMBDA a : a.is_correct))
           row == [ exists |-> TRUE,
                    tasks_attempted |->
                        Cardinality({t \in TemplateIds : VisInst(p, t).exists}),
                    tasks_completed |->
                        Cardinality({t \in TemplateIds :
                            /\ VisInst(p, t).exists
                            /\ VisInst(p, t).status = "completed"}),
                    accuracy_percentage |->
                        IF total_attempts > 0
                        THEN RoundHalfEven(correct_attempts * 10000,
                                           total_attempts)
                        ELSE 0,
                    last_activity_date |-> today ]
       IN  req' = [req EXCEPT ![p].tx.snap = <<row>>, ![p].pc = "commit"]
    /\ UNCHANGED <<gp, today, inst, attempts, snap, nreq>>

\* views.py 642, 659-661: the atomic block ends, the rows become visible
\* and the response is returned
Commit(p) ==
    /\ req[p].pc = "commit"
    /\ attempts' = attempts \o req[p].tx.attempt
    /\ inst' = IF req[p].tx.inst # <<>>
               THEN [inst EXCEPT ![req[p].task] = req[p].tx.inst[1]] ELSE inst
    /\ gp' = IF req[p].tx.gp # <<>> THEN req[p].tx.gp[1] ELSE gp
    /\ snap' = IF req[p].tx.snap # <<>> THEN req[p].tx.snap[1] ELSE snap
    /\ req' = [req EXCEPT ![p] = IdleRequest]
    /\ UNCHANGED <<today, nreq>>

\* the server clock reaches the next day
Tick ==
    /\ today < MaxDay
    /\ today' = today + 1
    /\ UNCHANGED <<gp, inst, attempts, snap, req, nreq>>

\* admin.py 260-289 (TaskAttemptAdmin allows change): the stored attempt
\* row i is saved again, unchanged, which runs TaskAttempt.save once more
ResaveAttempt(i) ==
    /\ AllIdle
    /\ nreq < MaxRequests
    /\ i \in 1..Len(attempts)
    /\ LET a == attempts[i]
           xp == xp_on_save(a.is_correct, a.xp_gained,
                            Templates[a.task].difficulty_level)
       IN  /\ attempts' = [attempts EXCEPT ![i].xp_gained = xp]
           /\ inst' = [inst EXCEPT ![a.task] = instance_on_save(@, a.is_correct)]
           /\ gp' = IF a.is_correct
                    THEN award_xp(IF gp.exists THEN gp ELSE FreshProfile, xp)
                    ELSE gp
    /\ nreq' = nreq + 1
    /\ UNCHANGED <<today, snap, req>>

RequestStep(p) ==
    \/ InsertAttempt(p)
    \/ SaveInstance(p)
    \/ ReadProfileForXp(p)
    \/ WriteProfileXp(p)
    \/ ReadProfileForStreak(p)
    \/ WriteStreak(p)
    \/ UpdateSnapshot(p)
    \/ Commit(p)

InitAttempt ==
    /\ gp = NoProfile
    /\ log = <<>>
    /\ IdleAttemptState
    /\ IdleModuleState
    /\ IdleServiceState
    /\ IdlePlacementState

\* Requests of the user arrive at any time and interleave.
NextAttempt ==
    \/ \E p \in Procs, t \in TemplateIds, a \in UserAnswers :
           Begin(p, t, a) /\ UNCHANGED <<log, placeVars, moduleVars, serviceVars>>
    \/ \E p \in Procs : RequestStep(p) /\ UNCHANGED <<log, placeVars, moduleVars, serviceVars>>
    \/ Tick /\ UNCHANGED <<log, placeVars, moduleVars, serviceVars>>

SpecAttempt == InitAttempt /\ [][NextAttempt]_vars

\* Requests (and admin saves) run one at a time, each to completion.
NextAttemptSeq ==
    \/ \E p \in Procs, t \in TemplateIds, a \in UserAnswers :
           AllIdle /\ Begin(p, t, a) /\ UNCHANGED <<log, placeVars, moduleVars, serviceVars>>
    \/ \E p \in Procs : RequestStep(p) /\ UNCHANGED <<log, placeVars, moduleVars, serviceVars>>
    \/ \E i \in 1..MaxRequests :
           ResaveAttempt(i) /\ UNCHANGED <<log, placeVars, moduleVars, serviceVars>>
    \/ Tick /\ UNCHANGED <<log, placeVars, moduleVars, serviceVars>>

SpecAttemptSeq == InitAttempt /\ [][NextAttemptSeq]_vars

MaxTxRequests == 2      \* attempt requests started in the rollback spec.

\* views.py 642: an exception raised inside the atomic block after the
\* attempt row was inserted (in TaskAttempt.save, update_streak, the snapshot
\* update or the commit itself) leaves the block: the transaction is rolled
\* back and the request ends with an error response
Abort_partial(p) ==
    /\ req[p].tx.attempt # <<>>
    /\ attempts' = attempts \o req[p].tx.attempt
    /\ req' = [req EXCEPT ![p] = [IdleRequest EXCEPT !.pc = "failed"]]
    /\ UNCHANGED <<gp, today, inst, snap, nreq>>

Abort(p) ==
    /\ req[p].tx.attempt # <<>>
    /\ req' = [req EXCEPT ![p] = [IdleRequest EXCEPT !.pc = "failed"]]
    /\ UNCHANGED <<gp, today, inst, attempts, snap, nreq>>

\* the worker that returned the error response takes the next request
Recover(p) ==
    /\ req[p].pc = "failed"
    /\ req' = [req EXCEPT ![p] = IdleRequest]
    /\ UNCHANGED <<gp, today, inst, attempts, snap, nreq>>

\* Requests interleave and any of them may fail inside its transaction.
NextAttemptTx ==
    \/ \E p \in Procs, t \in TemplateIds, a \in UserAnswers :
           /\ nreq < MaxTxRequests
           /\ Begin(p, t, a)
           /\ UNCHANGED <<log, placeVars, moduleVars, serviceVars>>
    \/ \E p \in Procs : RequestStep(p) /\ UNCHANGED <<log, placeVars, moduleVars, serviceVars>>
    \/ \E p \in Procs : Abort(p) /\ UNCHANGED <<log, placeVars, moduleVars, serviceVars>>
    \/ \E p \in Procs : Recover(p) /\ UNCHANGED <<log, placeVars, moduleVars, serviceVars>>

SpecAttemptTx == InitAttempt /\ [][NextAttemptTx]_vars

\* C3: in any sequence or interleaving of the user's attempt requests the
\* stored total_xp never becomes smaller than a value it held earlier.
C3_TotalXpMonotonic == [][gp'.total_xp >= gp.total_xp]_vars

\* xp_gained of a stored attempt: 10 x difficulty if correct, else 0
AttemptXpOK(a) ==
    a.xp_gained = IF a.is_correct
                  THEN 10 * Templates[a.task].difficulty_level ELSE 0

\* request p completes in this step
Completes(p) == req[p].pc = "commit" /\ req'[p].pc = "idle"

\* C5: every attempt created by the attempt request has xp_gained = 10 x the
\* template's difficulty level if correct and 0 if incorrect; a correct
\* attempt raises total XP by exactly xp_gained, an incorrect one leaves it.
C5_XpAwarded ==
    /\ [](\A i \in 1..Len(attempts) : AttemptXpOK(attempts[i]))
    /\ [][\A p \in Procs : Completes(p) =>
            /\ AttemptXpOK(req[p].attempt)
            /\ gp'.total_xp = gp.total_xp + req[p].attempt.xp_gained
            /\ ~req[p].attempt.is_correct => gp'.total_xp = gp.total_xp]_vars

\* a correct attempt on the difficulty-2 task and an incorrect attempt
C5_Witness ==
    /\ \E i \in 1..Len(attempts) :
           attempts[i].is_correct /\ attempts[i].xp_gained = 20
    /\ \E i \in 1..Len(attempts) : ~attempts[i].is_correct
    /\ gp.total_xp = 20
    /\ AllIdle

\* the step saves a stored attempt row again
ResaveStep ==
    /\ AllIdle
    /\ nreq' = nreq + 1
    /\ Len(attempts') = Len(attempts)
    /\ \A q \in Procs : req'[q].pc = "idle"

\* C6: saving the same attempt object a second time leaves the attempt's
\* xp_gained, the user's total XP and the instance's attempts_count as they
\* were after the first save.
C6_ResaveIdempotent ==
    [][ResaveStep =>
        /\ \A i \in 1..Len(attempts) :
               attempts'[i].xp_gained = attempts[i].xp_gained
        /\ gp'.total_xp = gp.total_xp
        /\ \A t \in TemplateIds :
               inst'[t].attempts_count = inst[t].attempts_count]_vars

\* the step ends request p with an error after its attempt row was written
Fails(p) == req[p].tx.attempt # <<>> /\ req'[p].pc = "failed"

\* C12: when the request of a correct attempt completes, the attempt row,
\* the instance update, the XP accrual and the streak update are all
\* committed; when a request fails after its attempt row was written, none
\* of its writes (attempt, instance counters, XP, streak, snapshot) is in
\* the committed state, neither before nor after the failure.
C12_AllOrNothing ==
    /\ [][\A p \in Procs :
            (Completes(p) /\ req[p].attempt.is_correct) =>
               /\ Last(attempts') = req[p].attempt
               /\ inst'[req[p].task] = req[p].task_instance
               /\ inst'[req[p].task].attempts_count >= 1
               /\ inst'[req[p].task].status = "completed"
               /\ gp' = req[p].profile
               /\ gp'.total_xp >= req[p].attempt.xp_gained
               /\ req[p].attempt.xp_gained > 0
               /\ gp'.last_activity_date = today
               /\ gp'.current_streak_days >= 1
               /\ snap'.exists]_vars
    /\ [][\A p \in Procs :
            Fails(p) => /\ attempts' = attempts /\ inst' = inst
                        /\ gp' = gp /\ snap' = snap]_vars
    /\ [](attempts = <<>> =>
            /\ ~gp.exists
            /\ ~snap.exists
            /\ \A t \in TemplateIds : inst[t].attempts_count = 0)

\* of two requests one failed after its insert and the other, correct on the
\* difficulty-2 task, completed
C12_Witness ==
    /\ nreq = 2
    /\ \E p \in Procs : req[p].pc = "failed"
    /\ Len(attempts) = 1
    /\ attempts[1].is_correct
    /\ gp.total_xp = 20
    /\ inst["t2"].status = "completed"

----------------------------------------------------------------------------
(* Ledger specification: any sequence of update_streak / add_xp calls,     *)
(* with arbitrary dates, on one freshly created profile.                   *)

InitLedger ==
    /\ gp = FreshProfile
    /\ log = <<>>
    /\ IdleAttemptState
    /\ IdleModuleState
    /\ IdleServiceState
    /\ IdlePlacementState

NextLedger ==
    \/ \E d \in Dates : UpdateStreak(d) /\ UNCHANGED <<attemptVars, placeVars, moduleVars, serviceVars>>
    \/ \E a \in XpAmounts, d \in Dates :
           AddXp(a, d) /\ UNCHANGED <<attemptVars, placeVars, moduleVars, serviceVars>>

SpecLedger == InitLedger /\ [][NextLedger]_vars

\* the step just taken was an update_streak call / an add_xp call
StreakStep == Len(log') = Len(log) + 1 /\ Last(log').op = "update_streak"
XpStep     == Len(log') = Len(log) + 1 /\ Last(log').op = "add_xp"

\* the update_streak calls of the log, in order
StreakCalls == SelectSeq(log, LAMBDA e : e.op = "update_streak")

\* the transition the streak rules prescribe for a call with date d
StreakRule(p, q, d) ==
    /\ q.last_activity_date = d
    /\ p.last_activity_date = NoDate =>
           q.current_streak_days = 1 /\ q.longest_streak_days = 1
    /\ p.last_activity_date # NoDate /\ d - p.last_activity_date = 0 =>
           /\ q.current_streak_days = p.current_streak_days
           /\ q.longest_streak_days = p.longest_streak_days
    /\ p.last_activity_date # NoDate /\ d - p.last_activity_date = 1 =>
           /\ q.current_streak_days = p.current_streak_days + 1
           /\ q.longest_streak_days =
                  Max(p.longest_streak_days, p.current_streak_days + 1)
    /\ p.last_activity_date # NoDate /\ d - p.last_activity_date > 1 =>
           /\ q.current_streak_days = 1
           /\ q.longest_streak_days = p.longest_streak_days

\* the date sequence [D, D, D+1, D+3] was applied to the fresh profile
GapSequenceApplied ==
    /\ Len(StreakCalls) = 4
    /\ StreakCalls[2].date = StreakCalls[1].date
    /\ StreakCalls[3].date = StreakCalls[1].date + 1
    /\ StreakCalls[4].date = StreakCalls[1].date + 3

\* C1: update_streak(d) changes the counters only according to the gap
\* between d and last_activity_date (none: both 1; 0: unchanged; 1: current
\* +1 and longest raised to it; >1: current 1, longest unchanged), always
\* sets last_activity_date to d, and [D, D, D+1, D+3] on a fresh profile
\* gives the streaks [1,1,2,1] and longest streak 2.
C1_StreakTransitions ==
    /\ [][StreakStep => StreakRule(gp, gp', Last(log').date)]_vars
    /\ [](GapSequenceApplied =>
            /\ [i \in 1..4 |-> StreakCalls[i].streak] = <<1, 1, 2, 1>>
            /\ gp.longest_streak_days = 2)

C1_Witness ==
    /\ GapSequenceApplied
    /\ gp.current_streak_days = 1
    /\ gp.last_activity_date = 3

\* the largest value current_streak_days has held so far (0 at creation)
RECURSIVE MaxStreakSeen(_)
MaxStreakSeen(l) ==
    IF l = <<>> THEN 0 ELSE Max(Head(l).streak, MaxStreakSeen(Tail(l)))

\* C2: from a fresh profile, longest_streak_days never decreases and always
\* equals the largest value current_streak_days has held so far.
C2_LongestIsMaxOfCurrent ==
    /\ [][gp'.longest_streak_days >= gp.longest_streak_days]_vars
    /\ [](/\ gp.longest_streak_days = MaxStreakSeen(log)
          /\ gp.longest_streak_days >= gp.current_streak_days)

\* a streak of three days was built and then broken by a gap
C2_Witness ==
    /\ gp.longest_streak_days = 3
    /\ gp.current_streak_days = 1
    /\ Len(StreakCalls) = 4

\* the effect of add_xp(amount, d): total and the day's bucket grow by
\* amount, every other bucket and every other field is unchanged
XpRule(p, q, amount, d) ==
    /\ q.total_xp = p.total_xp + amount
    /\ DOMAIN q.xp_history = DOMAIN p.xp_history \cup {isoformat(d)}
    /\ q.xp_history[isoformat(d)] =
           (IF isoformat(d) \in DOMAIN p.xp_history
            THEN p.xp_history[isoformat(d)] ELSE 0) + amount
    /\ \A k \in DOMAIN p.xp_history \ {isoformat(d)} :
           q.xp_history[k] = p.xp_history[k]
    /\ q.current_streak_days = p.current_streak_days
    /\ q.longest_streak_days = p.longest_streak_days
    /\ q.last_activity_date = p.last_activity_date

\* add_xp(5, 2024-01-01) twice, then add_xp(3, 2024-01-02), on a fresh profile
XpExampleApplied ==
    log = << [op |-> "add_xp", date |-> 0, amount |-> 5, streak |-> 0],
             [op |-> "add_xp", date |-> 0, amount |-> 5, streak |-> 0],
             [op |-> "add_xp", date |-> 1, amount |-> 3, streak |-> 0] >>

\* C4: add_xp(amount, date) adds amount to total XP and to the history
\* bucket of the ISO date (created if absent) and changes nothing else; the
\* example 5, 5 on 2024-01-01 and 3 on 2024-01-02 gives 13 and {10, 3}.
C4_AddXp ==
    /\ [][XpStep => XpRule(gp, gp', Last(log').amount, Last(log').date)]_vars
    /\ [](XpExampleApplied =>
            /\ gp.total_xp = 13
            /\ DOMAIN gp.xp_history = {"2024-01-01", "2024-01-02"}
            /\ gp.xp_history["2024-01-01"] = 10
            /\ gp.xp_history["2024-01-02"] = 3)

C4_Witness == XpExampleApplied /\ gp.total_xp = 13

----------------------------------------------------------------------------
(* Scoring specification: one submission, by any user to any active test   *)
(* with any answer map over AnswerTexts.                                   *)

InitPlacement ==
    /\ gp = NoProfile
    /\ log = <<>>
    /\ IdleAttemptState
    /\ IdleModuleState
    /\ IdleServiceState
    /\ IdlePlacementState

NextScore ==
    \/ \E u \in Users, t \in TestIds : \E answers \in AnswerMaps(t) :
           /\ results = <<>>
           /\ SubmitPlacement(u, t, answers)
           /\ UNCHANGED <<ledgerVars, attemptVars, moduleVars, serviceVars>>
    \/ UpdateLevel /\ UNCHANGED <<ledgerVars, attemptVars, moduleVars, serviceVars>>

SpecScore == InitPlacement /\ [][NextScore]_vars

(* Placement specification: up to MaxSubmissions submissions of the two    *)
(* users, handled one after the other; each answers the first items of the *)
(* test correctly and leaves the rest out, which reaches every score.      *)

NextPlacement ==
    \/ \E u \in Users, t \in TestIds : \E answers \in PrefixAnswerMaps(t) :
           SubmitPlacement(u, t, answers) /\ UNCHANGED <<ledgerVars, attemptVars, moduleVars, serviceVars>>
    \/ UpdateLevel /\ UNCHANGED <<ledgerVars, attemptVars, moduleVars, serviceVars>>

SpecPlacement == InitPlacement /\ [][NextPlacement]_vars

\* total weight of the items of test t
TotalWeight(t) ==
    SumSeq([k \in 1..Len(PlacementTests[t].items) |->
               PlacementTests[t].items[k].difficulty_weight])

\* the items of test t whose normalized answer equals the normalized
\* canonical answer
Matching(t, answers) ==
    {k \in 1..Len(PlacementTests[t].items) :
        strip(lower(answers[k])) =
            strip(lower(PlacementTests[t].items[k].correct_answer))}

MatchingWeight(t, answers) ==
    SumSeq([k \in 1..Len(PlacementTests[t].items) |->
               IF k \in Matching(t, answers)
               THEN PlacementTests[t].items[k].difficulty_weight ELSE 0])

\* max_score and score of a stored result are the total weight and the
\* weight of the matching items
ScoreOK(row) ==
    /\ row.max_score = TotalWeight(row.test)
    /\ row.score = MatchingWeight(row.test, row.answers)
    /\ 0 <= row.score
    /\ row.score <= row.max_score

\* C7 as stated: for total weight W > 0, max_score = W, score = weight of the
\* matching items, 0 <= score <= W, and the stored percentage equals
\* score / W * 100.
C7_ScoreAndExactPercentage ==
    \A i \in 1..Len(results) :
        TotalWeight(results[i].test) > 0 =>
            /\ ScoreOK(results[i])
            /\ results[i].percentage * results[i].max_score
                   = results[i].score * 10000

\* C7 amended: as above, but the stored percentage equals score / W * 100
\* rounded to two decimal places (it differs from it by at most 0.005).
C7_ScoreAndRoundedPercentage ==
    \A i \in 1..Len(results) :
        TotalWeight(results[i].test) > 0 =>
            /\ ScoreOK(results[i])
            /\ LET e == results[i].percentage * results[i].max_score
                            - results[i].score * 10000
               IN  2 * e <= results[i].max_score /\ -2 * e <= results[i].max_score

\* two of three equal-weight items answered correctly: 66.67 is stored
C7_Witness ==
    \E i \in 1..Len(results) :
        /\ results[i].test = "k"
        /\ results[i].score = 200
        /\ results[i].max_score = 300
        /\ results[i].percentage = 6667

\* C9: a submission to a test whose max score is 0 creates a result with
\* percentage 0 and band A0; it does not fail.
C9_ZeroMaxScoreStored ==
    (sub.pc \in {"done", "error"} /\ TotalWeight(sub.test) = 0) =>
        /\ sub.pc = "done"
        /\ Last(results).test = sub.test
        /\ Last(results).percentage = 0
        /\ Last(results).estimated_cefr_level = "A0"

\* the band of the last stored result of user u on a test of u's target
\* language, or the initial level when there is none
RECURSIVE LastMatchingBand(_, _, _)
LastMatchingBand(u, rows, initial) ==
    IF rows = <<>> THEN initial
    ELSE LET row == rows[Len(rows)]
         IN  IF row.user = u
                /\ PlacementTests[row.test].language = TargetLanguage[u]
             THEN row.estimated_cefr_level
             ELSE LastMatchingBand(u, SubSeq(rows, 1, Len(rows) - 1), initial)

\* the step completes a successful submission
SubmissionCompletes == sub.pc = "saved" /\ sub'.pc = "done"

\* C10: after a successful submission the user's level is the computed
\* band if the target language equals the test's language and is unchanged
\* otherwise (other users' levels are untouched); after several submissions
\* it is the band of the last matching one.
C10_LevelOverwrite ==
    /\ [][SubmissionCompletes =>
            /\ level'[sub.user] =
                   IF TargetLanguage[sub.user] = PlacementTests[sub.test].language
                   THEN sub.band ELSE level[sub.user]
            /\ \A u \in Users \ {sub.user} : level'[u] = level[u]]_vars
    /\ [](sub.pc # "saved" =>
            \A u \in Users : level[u] = LastMatchingBand(u, results, "A0"))

\* u1 took the kazakh test twice (C2, then A1) and u2 took it as well
C10_Witness ==
    /\ sub.pc = "done"
    /\ Len(results) = 2
    /\ results[1].user = "u1" /\ results[1].estimated_cefr_level = "C2"
    /\ results[2].user = "u1" /\ results[2].estimated_cefr_level = "A1"
    /\ results[1].test = "k" /\ results[2].test = "k"
    /\ level["u1"] = "A1"

\* C11: placement submission applies its two writes atomically: in no state
\* that a concurrent reader can observe does a result record exist while the
\* level of its user, whose target language matches the test, is not the
\* band of that (last matching) result.
C11_PlacementAtomic ==
    \A u \in Users : level[u] = LastMatchingBand(u, results, "A0")

----------------------------------------------------------------------------
(* Band specification: _percentage_to_cefr on every percentage             *)
(* 0.00, 0.01, ..., MaxHundredths / 100.                                   *)

InitBand ==
    /\ gp = NoProfile
    /\ log = <<>>
    /\ IdleAttemptState
    /\ IdleModuleState
    /\ IdleServiceState
    /\ level = [u \in Users |-> "A0"]
    /\ results = <<>>
    /\ \E h \in 0..MaxHundredths :
           sub = [NoSubmission EXCEPT !.pc = "input",
                                      !.percentage = [n |-> h, d |-> 100]]

NextBand == ComputeBand /\ UNCHANGED <<ledgerVars, attemptVars, moduleVars, serviceVars>>

SpecBand == InitBand /\ [][NextBand]_vars

\* position of a band in the order A0 < A1 < A2 < B1 < B2 < C1 < C2
Rank(b) == CHOOSE i \in 1..Len(Bands) : Bands[i] = b

\* the band the table of the claim gives for h hundredths of a percent
TableBand(h) ==
    IF h <= 2000 THEN "A0"
    ELSE IF h <= 3500 THEN "A1"
    ELSE IF h <= 5000 THEN "A2"
    ELSE IF h <= 6500 THEN "B1"
    ELSE IF h <= 8000 THEN "B2"
    ELSE IF h <= 9000 THEN "C1"
    ELSE "C2"

\* C8: p <= 20 is A0, (20, 35] A1, (35, 50] A2, (50, 65] B1, (65, 80] B2,
\* (80, 90] C1, above 90 C2; the band is non-decreasing in p (no percentage
\* has a lower band than the percentage 0.01 below it, which gives the
\* order for every pair) and each of 20, 35, 50, 65, 80, 90 maps to the
\* lower band, the next percentage to the band above.
C8_BandTable ==
    sub.pc = "output" =>
        /\ sub.band = TableBand(sub.percentage.n)
        /\ sub.percentage.n > 0 =>
               Rank(_percentage_to_cefr([n |-> sub.percentage.n - 1,
                                         d |-> 100])) <= Rank(sub.band)
        /\ sub.percentage.n \in {2000, 3500, 5000, 6500, 8000, 9000} =>
               /\ Rank(_percentage_to_cefr([n |-> sub.percentage.n + 1,
                                            d |-> 100])) = Rank(sub.band) + 1

\* the limit 20.00 itself has been mapped, to A0
C8_Witness ==
    sub.pc = "output" /\ sub.percentage.n = 2000 /\ sub.band = "A0"

----------------------------------------------------------------------------
(* Module completion: models.py Module.check_completion, called by the     *)
(* admin action check_module_completion, between attempt requests that run *)
(* one at a time.                                                          *)

MaxChecks == 3          \* check_completion calls in one behaviour

\* the attempts in atts on tasks of module m
module_attempts(m, atts) == SelectSeq(atts, LAMBDA a : a.task \in m.tasks)

\* models.py 285-288: the tasks of m whose instance is completed
completed_tasks(m, insts) ==
    Cardinality({t \in m.tasks : insts[t].exists /\ insts[t].status = "completed"})

\* models.py 292-304: correct / total * 100, or 0 without attempts
accuracy(m, atts) ==
    LET total_attempts == Len(module_attempts(m, atts))
        correct_count == Len(SelectSeq(module_attempts(m, atts),
                                       LAMBDA a : a.is_correct))
    IN  IF total_attempts > 0
        THEN [n |-> correct_count * 100, d |-> total_attempts]
        ELSE [n |-> 0, d |-> 1]

\* the evaluator that stamps the time on every successful call
check_completion_restamp(m, insts, atts, now) ==
    LET criteria == m.checkpoint_criteria
        acc == accuracy(m, atts)
        min_accuracy == get(criteria, "accuracy_threshold", 85 * 100)
        min_tasks == get(criteria, "min_tasks_completed", 10)
    IN  IF criteria = EmptyCriteria THEN [ret |-> FALSE, module |-> m]
        ELSE IF m.tasks = {} THEN [ret |-> FALSE, module |-> m]
        ELSE IF completed_tasks(m, insts) >= min_tasks
                /\ acc.n >= min_accuracy * acc.d
        THEN [ret |-> TRUE,
              module |-> [m EXCEPT !.is_completed = TRUE, !.completed_at = now]]
        ELSE [ret |-> FALSE, module |-> m]

\* the evaluator that needs only one of the two conditions
check_completion_either(m, insts, atts, now) ==
    LET criteria == m.checkpoint_criteria
        acc == accuracy(m, atts)
        min_accuracy == get(criteria, "accuracy_threshold", 85 * 100)
        min_tasks == get(criteria, "min_tasks_completed", 10)
    IN  IF criteria = EmptyCriteria THEN [ret |-> FALSE, module |-> m]
        ELSE IF m.tasks = {} THEN [ret |-> FALSE, module |-> m]
        ELSE IF completed_tasks(m, insts) >= min_tasks
                \/ acc.n >= min_accuracy * acc.d
        THEN [ret |-> TRUE,
              module |-> IF m.is_completed THEN m
                         ELSE [m EXCEPT !.is_completed = TRUE,
                                        !.completed_at = now]]
        ELSE [ret |-> FALSE, module |-> m]

\* the evaluator whose default threshold is 0.85
check_completion_fraction(m, insts, atts, now) ==
    LET criteria == m.checkpoint_criteria
        acc == accuracy(m, atts)
        min_accuracy == get(criteria, "accuracy_threshold", 85)
        min_tasks == get(criteria, "min_tasks_completed", 10)
    IN  IF criteria = EmptyCriteria THEN [ret |-> FALSE, module |-> m]
        ELSE IF m.tasks = {} THEN [ret |-> FALSE, module |-> m]
        ELSE IF completed_tasks(m, insts) >= min_tasks
                /\ acc.n >= min_accuracy * acc.d
        THEN [ret |-> TRUE,
              module |-> IF m.is_completed THEN m
                         ELSE [m EXCEPT !.is_completed = TRUE,
                                        !.completed_at = now]]
        ELSE [ret |-> FALSE, module |-> m]

\* models.py 261-318: the value returned and the module row afterwards.
\* The default 85 of line 307 is the number 85, i.e. 8500 hundredths.
check_completion(m, insts, atts, now) ==
    LET criteria == m.checkpoint_criteria
        acc == accuracy(m, atts)
        min_accuracy == get(criteria, "accuracy_threshold", 85 * 100)
        min_tasks == get(criteria, "min_tasks_completed", 10)
    IN  IF criteria = EmptyCriteria THEN [ret |-> FALSE, module |-> m]
        ELSE IF m.tasks = {} THEN [ret |-> FALSE, module |-> m]
        ELSE IF completed_tasks(m, insts) >= min_tasks
                /\ acc.n >= min_accuracy * acc.d
        THEN [ret |-> TRUE,
              module |-> IF m.is_completed THEN m
                         ELSE [m EXCEPT !.is_completed = TRUE,
                                        !.completed_at = now]]
        ELSE [ret |-> FALSE, module |-> m]

\* admin.py 186-192: the admin action calls check_completion on the module;
\* the clock has advanced since the previous call
CheckCompletion ==
    /\ Len(checks) < MaxChecks
    /\ LET r == check_completion(mod, inst, attempts, Len(checks) + 1)
       IN  /\ mod' = r.module
           /\ checks' = Append(checks, r.ret)
    /\ UNCHANGED <<gp, log, today, inst, attempts, snap, req, nreq, placeVars,
                   serviceVars>>

\* views.py 740-767, models.py 697-715: the snapshot row written from the
\* instances insts and the attempts seen
snapshot_row(insts, seen, day) ==
    LET total_attempts == Len(seen)
        correct_attempts == Len(SelectSeq(seen, LAMBDA a : a.is_correct))
    IN  [ exists |-> TRUE,
          tasks_attempted |->
              Cardinality({t \in TemplateIds : insts[t].exists}),
          tasks_completed |->
              Cardinality({t \in TemplateIds :
                              insts[t].exists /\ insts[t].status = "completed"}),
          accuracy_percentage |->
              IF total_attempts > 0
              THEN RoundHalfEven(correct_attempts * 10000, total_attempts)
              ELSE 0,
          last_activity_date |-> day ]

\* views.py 601-661, models.py 463-493: one attempt request from validation
\* to the response, with no other request in between
AttemptRequest(t, answer) ==
    /\ nreq < MaxRequests
    /\ LET user_answer == strip(answer)
           is_correct == _evaluate_answer(user_answer,
                             Templates[t].correct_answer, Templates[t].task_type)
           a == [ task |-> t, user_answer |-> user_answer,
                  is_correct |-> is_correct,
                  feedback |-> _generate_feedback(Templates[t], user_answer,
                                   is_correct, TRUE,
                                   gemini_service_generate_task_feedback),
                  xp_gained |-> xp_on_save(is_correct, 0,
                                           Templates[t].difficulty_level) ]
           task_instance == IF inst[t].exists THEN inst[t] ELSE NewInstance
           profile == IF gp.exists THEN gp ELSE FreshProfile
           awarded == IF is_correct THEN award_xp(profile, a.xp_gained)
                      ELSE profile
       IN  /\ attempts' = Append(attempts, a)
           /\ inst' = [inst EXCEPT ![t] = instance_on_save(task_instance,
                                                           is_correct)]
           /\ gp' = update_streak(awarded, today)
           /\ snap' = snapshot_row(inst', attempts', today)
    /\ nreq' = nreq + 1
    /\ UNCHANGED <<log, today, req, placeVars, moduleVars, serviceVars>>

\* the answers tried on task t: its canonical answer and a wrong one
TriedAnswers(t) == {Templates[t].correct_answer, <<"b">>}

\* the criteria and task sets of the modules examined
CriteriaChoices ==
    { EmptyCriteria,
      [accuracy_threshold |-> 0, min_tasks_completed |-> 0],
      [accuracy_threshold |-> 50, min_tasks_completed |-> 1],
      [accuracy_threshold |-> 100, min_tasks_completed |-> 2],
      [min_tasks_completed |-> 1],
      [accuracy_threshold |-> 50] }

TaskChoices == { {}, {"t1"}, {"t1", "t2"} }

InitModule ==
    /\ gp = NoProfile
    /\ log = <<>>
    /\ IdleAttemptState
    /\ IdlePlacementState
    /\ checks = <<>>
    /\ IdleServiceState
    /\ \E criteria \in CriteriaChoices, tasks \in TaskChoices :
           mod = NewModule(criteria, tasks)

NextModule ==
    \/ \E t \in TemplateIds : \E a \in TriedAnswers(t) : AttemptRequest(t, a)
    \/ CheckCompletion

SpecModule == InitModule /\ [][NextModule]_vars

\* the step is a call of check_completion
CheckStep == Len(checks') = Len(checks) + 1

BothKeys == {"accuracy_threshold", "min_tasks_completed"}

\* the owner's correct and total attempts on the module's tasks
CorrectAttempts ==
    Cardinality({i \in 1..Len(attempts) :
                    attempts[i].task \in mod.tasks /\ attempts[i].is_correct})

TotalAttempts ==
    Cardinality({i \in 1..Len(attempts) : attempts[i].task \in mod.tasks})

CompletedTasks ==
    Cardinality({t \in mod.tasks : inst[t].status = "completed"})

\* accuracy (correct / total * 100, or 0 with no attempts) is at least
\* accuracy_threshold * 100, the threshold being thr hundredths
AccuracyReaches(thr) ==
    IF TotalAttempts = 0 THEN 0 >= thr
    ELSE 100 * CorrectAttempts >= thr * TotalAttempts

\* C13: check_completion returns true exactly when the criteria are
\* non-empty, the module has tasks, the owner's completed tasks are at least
\* min_tasks_completed and the owner's accuracy is at least
\* accuracy_threshold * 100; with empty criteria it returns false and
\* changes nothing.  (Criteria that name both keys, or none.)
C13_CompletionCondition ==
    [][CheckStep =>
         LET c == mod.checkpoint_criteria
         IN  /\ c = EmptyCriteria =>
                   /\ Last(checks') = FALSE
                   /\ mod' = mod
                   /\ UNCHANGED <<gp, inst, attempts, snap>>
             /\ DOMAIN c = BothKeys =>
                   (Last(checks') = TRUE <=>
                       /\ mod.tasks # {}
                       /\ CompletedTasks >= c.min_tasks_completed
                       /\ AccuracyReaches(c.accuracy_threshold))]_vars

\* threshold 0.5, one task required: false after an incorrect attempt on
\* t1, true after the correct one that follows (accuracy exactly 50)
C13_Witness ==
    /\ mod.checkpoint_criteria =
           [accuracy_threshold |-> 50, min_tasks_completed |-> 1]
    /\ Len(attempts) = 2
    /\ ~attempts[1].is_correct /\ attempts[2].is_correct
    /\ checks = <<FALSE, TRUE>>

\* C14: once check_completion has set the completion flag, no later attempt
\* or check_completion call un-sets it or changes the completion timestamp.
C14_CompletionSticky ==
    [][mod.is_completed =>
          mod'.is_completed /\ mod'.completed_at = mod.completed_at]_vars

\* completed at the first call; an incorrect attempt makes the second call
\* fail and a correct one makes the third succeed, the timestamp being kept
C14_Witness ==
    /\ checks = <<TRUE, FALSE, TRUE>>
    /\ mod.is_completed
    /\ mod.completed_at = 1

\* C15: once check_completion has returned true, every later call returns
\* true, whatever attempts are recorded in between.
C15_TrueStaysTrue ==
    \A i, j \in 1..Len(checks) : (i < j /\ checks[i]) => checks[j]

----------------------------------------------------------------------------
(* Dialogue specification: a session is started on a scenario with any of  *)
(* the max_turns values; message and end requests follow, one at a time;   *)
(* the provider answers each request in any of the ways listed.            *)

DialogueOutcomes ==
    FailureOutcomes \cup {Answers(Text("[fence]json", Json(AiReply), "[fence]"))}

InitDialogue ==
    /\ gp = NoProfile
    /\ log = <<>>
    /\ IdleAttemptState
    /\ IdlePlacementState
    /\ IdleModuleState
    /\ IdleServiceState



NextDialogue ==
    \/ \E m \in ScenarioMaxTurns :
           /\ StartSession(m)
           /\ UNCHANGED <<ledgerVars, attemptVars, placeVars, moduleVars,
                          gatewayVars, roadmapVars, evalVars>>
    \/ \E body \in MessageBodies :
           /\ MessageRead(1, body)
           /\ UNCHANGED <<ledgerVars, attemptVars, placeVars, moduleVars,
                          gatewayVars, roadmapVars, evalVars>>
    \/ \E outcome \in DialogueOutcomes :
           /\ MessageGenerate(1, outcome)
           /\ UNCHANGED <<ledgerVars, attemptVars, placeVars, moduleVars,
                          roadmapVars, evalVars>>
    \/ /\ MessageSave(1)
       /\ UNCHANGED <<ledgerVars, attemptVars, placeVars, moduleVars,
                      gatewayVars, roadmapVars, evalVars>>
    \/ /\ EndSession(1)
       /\ UNCHANGED <<ledgerVars, attemptVars, placeVars, moduleVars,
                      gatewayVars, roadmapVars, evalVars>>

SpecDialogue == InitDialogue /\ [][NextDialogue]_vars

\* the step takes in a message request of process p
MessageArrives(p) ==
    dlg[p].pc = "idle" /\ ndlg' = ndlg + 1 /\ dlg'[p].op = "message"

\* C16: a message sent to a session that is completed, or that has reached
\* its scenario's max_turns, is rejected: no turn is stored, the session's
\* status, turn_count and ended_at are unchanged, and the response differs
\* from the one given for a validation error.
C16_MessageRejected ==
    [][\A p \in Procs :
         ( /\ MessageArrives(p)
           /\ sess.exists
           /\ sess.status = "completed" \/ sess.turn_count >= sess.max_turns )
         => /\ dlg'[p].pc = "idle"
            /\ dlg'[p].response \in {NotFound, RejectedTurn}
            /\ dlg'[p].response # ValidationError
            /\ turns' = turns
            /\ sess' = sess]_vars

\* a message to the session completed by its second turn was answered 404
C16_Witness ==
    /\ sess.status = "completed"
    /\ sess.turn_count = 2
    /\ Len(turns) = 2
    /\ dlg[1].op = "message"
    /\ dlg[1].pc = "idle"
    /\ dlg[1].response = NotFound

----------------------------------------------------------------------------
(* Gateway specification: generate_content and generate_json are called    *)
(* directly, with and without the cache, with and without a schema, on a   *)
(* service with or without an API key; cache entries expire at any time.   *)

MaxCalls == 2           \* gateway calls in one behaviour

GatewayPrompt == <<"prompt">>

RoadmapSchema == Schema(<<"modules">>)

GatewayOutcomes ==
    FailureOutcomes \cup {Answers(Text("[fence]json", Json(AiRoadmap), "[fence]"))}

CallGenerateContent(use_cache, outcome) ==
    /\ gw.ncalls < MaxCalls
    /\ LET got == generate_content(gw.has_model, cache, GatewayPrompt,
                                   use_cache, outcome)
       IN  /\ cache' = got.cache
           /\ gw' = called("generate_content", use_cache, outcome, got)

CallGenerateJson(schema, use_cache, outcome) ==
    /\ gw.ncalls < MaxCalls
    /\ LET got == generate_json(gw.has_model, cache, GatewayPrompt, schema,
                                use_cache, outcome)
       IN  /\ cache' = got.cache
           /\ gw' = called(IF schema.present THEN "generate_json with schema"
                           ELSE "generate_json", use_cache, outcome, got)

\* the timeout of the entry under key has passed
Expire(key) ==
    /\ key \in DOMAIN cache
    /\ cache' = [k \in DOMAIN cache \ {key} |-> cache[k]]
    /\ UNCHANGED gw

InitGateway ==
    /\ gp = NoProfile
    /\ log = <<>>
    /\ IdleAttemptState
    /\ IdlePlacementState
    /\ IdleModuleState
    /\ sess = NoSession
    /\ turns = <<>>
    /\ dlg = [p \in Procs |-> IdleMessage]
    /\ ndlg = 0
    /\ roadmaps = <<>>
    /\ gen = NoGeneration
    /\ ev = NoEvaluation
    /\ cache = EmptyCache
    /\ \E has_model \in BOOLEAN : gw = [NoCall EXCEPT !.has_model = has_model]

NextGateway ==
    \/ \E use_cache \in BOOLEAN, outcome \in GatewayOutcomes :
           /\ CallGenerateContent(use_cache, outcome)
           /\ UNCHANGED <<ledgerVars, attemptVars, placeVars, moduleVars,
                          dialogueVars, roadmapVars, evalVars>>
    \/ \E schema \in {NoSchema, RoadmapSchema}, use_cache \in BOOLEAN,
          outcome \in GatewayOutcomes :
           /\ CallGenerateJson(schema, use_cache, outcome)
           /\ UNCHANGED <<ledgerVars, attemptVars, placeVars, moduleVars,
                          dialogueVars, roadmapVars, evalVars>>
    \/ \E key \in DOMAIN cache :
           /\ Expire(key)
           /\ UNCHANGED <<ledgerVars, attemptVars, placeVars, moduleVars,
                          dialogueVars, roadmapVars, evalVars>>

SpecGateway == InitGateway /\ [][NextGateway]_vars

\* the value is a JSON object that has every key of the schema asked for
ObjectWithKeys(v, op) ==
    /\ v.type = "dict"
    /\ op = "generate_json with schema" => "modules" \in DOMAIN v.value

\* the provider outcomes that are failures for the operation: for
\* generate_content an exception and an empty text; for generate_json also
\* every text that is not a JSON object with the required keys
FailuresOf(op) ==
    CASE op = "generate_content" -> {ProviderError, Answers(EmptyText)}
      [] op = "generate_json" ->
             {o \in FailureOutcomes :
                 o.raises \/ ~loads(o.text).value.type = "dict"}
      [] OTHER -> FailureOutcomes

\* C17: generate_content and generate_json never raise; they return null
\* (generate_content: null or the empty text) when the API key is missing
\* and when the provider, asked, fails in one of the listed ways; what
\* generate_json returns otherwise is an object with the required keys.
C17_NullOnFailure ==
    gw.op # "none" =>
        /\ ~gw.result.raised
        /\ ~gw.has_model => gw.result.value.type = "None"
        /\ (gw.provider_called /\ gw.outcome \in FailuresOf(gw.op)) =>
               ~truthy(gw.result.value) /\ gw.result.value.type \in {"None", "str"}
        /\ (gw.op # "generate_content" /\ gw.result.value.type # "None") =>
               ObjectWithKeys(gw.result.value, gw.op)

----------------------------------------------------------------------------
(* Fallback specification: roadmap generation, task attempts and dialogue  *)
(* messages are requested, one request at a time, on a service with or     *)
(* without an API key; the provider either errors or answers as asked.     *)

MaxFlowRequests == 3    \* requests of the three flows in one behaviour

\* the provider errors, or answers with the fenced JSON of value
ErrorOr(value) ==
    {ProviderError, Answers(Text("[fence]json", Json(value), "[fence]"))}

FlowRoom == nreq + ndlg + gen.n < MaxFlowRequests

\* the roadmap requests made here: those for level A0, which has a
\* template for english and none for spanish
FallbackBodies == {body \in RoadmapBodies : body.cefr_level = "A0"}

InitFallback ==
    /\ gp = NoProfile
    /\ log = <<>>
    /\ IdleAttemptState
    /\ IdlePlacementState
    /\ IdleModuleState
    /\ sess = NoSession
    /\ turns = <<>>
    /\ dlg = [p \in Procs |-> IdleMessage]
    /\ ndlg = 0
    /\ roadmaps = <<>>
    /\ gen = NoGeneration
    /\ ev = NoEvaluation
    /\ cache = EmptyCache
    /\ \E has_model \in BOOLEAN : gw = [NoCall EXCEPT !.has_model = has_model]

NextFallback ==
    \/ \E body \in FallbackBodies, outcome \in ErrorOr(AiRoadmap) :
           /\ FlowRoom
           /\ GenerateRoadmap("u1", body, outcome)
           /\ UNCHANGED <<ledgerVars, attemptVars, placeVars, moduleVars,
                          dialogueVars, evalVars>>
    \/ \E t \in TemplateIds : \E a \in TriedAnswers(t) :
           /\ FlowRoom
           /\ AttemptRequest(t, a)
    \/ \E m \in ScenarioMaxTurns :
           /\ StartSession(m)
           /\ UNCHANGED <<ledgerVars, attemptVars, placeVars, moduleVars,
                          gatewayVars, roadmapVars, evalVars>>
    \/ \E body \in MessageBodies :
           /\ FlowRoom
           /\ MessageRead(1, body)
           /\ UNCHANGED <<ledgerVars, attemptVars, placeVars, moduleVars,
                          gatewayVars, roadmapVars, evalVars>>
    \/ \E outcome \in ErrorOr(AiReply) :
           /\ MessageGenerate(1, outcome)
           /\ UNCHANGED <<ledgerVars, attemptVars, placeVars, moduleVars,
                          roadmapVars, evalVars>>
    \/ /\ MessageSave(1)
       /\ UNCHANGED <<ledgerVars, attemptVars, placeVars, moduleVars,
                      gatewayVars, roadmapVars, evalVars>>

SpecFallback == InitFallback /\ [][NextFallback]_vars

\* in this step the service has no API key, or the provider was invoked
\* and raised
ProviderFailed ==
    \/ ~gw'.has_model
    \/ gw'.ncalls = gw.ncalls + 1 /\ gw'.provider_called /\ gw'.outcome.raises

\* the roadmap row is a fallback roadmap with one module row per entry
FallbackStored(row) ==
    /\ ~row.generated_by_ai
    /\ row.roadmap_data.type = "dict"
    /\ "modules" \in DOMAIN row.roadmap_data.value
    /\ LET entries == row.roadmap_data.value["modules"]
       IN  /\ entries.type = "list"
           /\ Len(entries.value) > 0
           /\ Len(row.modules) = Len(entries.value)
           /\ \A i \in 1..Len(entries.value) :
                  /\ row.modules[i].order = i
                  /\ row.modules[i].title = entries.value[i].value["title"]

\* the feedback is the static one of task t
StaticFeedback(feedback, t) ==
    /\ feedback.type = "dict"
    /\ DOMAIN feedback.value =
           {"message", "is_correct", "correct_answer", "rule",
            "example_contrast"}
    /\ feedback.value["message"] = Str("Not quite right. Here's some help:")
    /\ feedback.value["correct_answer"] = Str(Templates[t].correct_answer)
    /\ feedback.value["rule"] = Str(Templates[t].rule_explanation)
    /\ feedback.value["example_contrast"] = Str(Templates[t].example_contrast)

\* the turn carries the placeholder reply
PlaceholderTurn(turn) ==
    /\ turn.ai_response = Str("I understand. Please continue.")
    /\ turn.corrections = List(<<>>)
    /\ turn.reformulation = Str("")

\* C18: when the provider errors or no API key is configured, a valid
\* roadmap request answers 201 and stores a roadmap with generated_by_ai
\* false, a non-empty modules list in its data and one module per entry; an
\* incorrect attempt stores the static feedback with message,
\* correct_answer, rule and example_contrast; a dialogue message stores a
\* turn with the placeholder reply, no corrections and no reformulation.
C18_FallbackOnFailure ==
    [][ /\ ( /\ gen'.n = gen.n + 1
             /\ gen'.response # ValidationError
             /\ ProviderFailed )
           => /\ gen'.response = RoadmapCreated
              /\ Len(roadmaps') = Len(roadmaps) + 1
              /\ FallbackStored(Last(roadmaps'))
        /\ ( /\ nreq' = nreq + 1
             /\ ~Last(attempts').is_correct )
           => /\ Len(attempts') = Len(attempts) + 1
              /\ StaticFeedback(Last(attempts').feedback, Last(attempts').task)
        /\ ( /\ dlg[1].pc = "generate"
             /\ dlg'[1] # dlg[1]
             /\ ProviderFailed )
           => /\ dlg'[1].pc = "save"
              /\ dlg'[1].ai_data = FallbackReply
        /\ ( /\ dlg[1].pc = "save"
             /\ dlg'[1] # dlg[1]
             /\ dlg[1].ai_data = FallbackReply )
           => /\ dlg'[1].response = Created
              /\ Len(turns') = Len(turns) + 1
              /\ PlaceholderTurn(Last(turns'))
      ]_vars

\* after an incorrect attempt and a dialogue turn with the placeholder, a
\* roadmap request whose provider call raised has stored a fallback roadmap
C18_Witness ==
    /\ gw.has_model
    /\ gw.op = "generate_roadmap"
    /\ gw.provider_called
    /\ gw.outcome.raises
    /\ Len(roadmaps) = 1
    /\ ~roadmaps[1].generated_by_ai
    /\ Len(roadmaps[1].modules) = 3
    /\ Len(turns) = 1
    /\ PlaceholderTurn(turns[1])
    /\ Len(attempts) = 1
    /\ ~attempts[1].is_correct
    /\ "rule" \in DOMAIN attempts[1].feedback.value

----------------------------------------------------------------------------
(* Flow specification: the three flows of the gateway are called directly, *)
(* each with a few inputs so that identical calls repeat, on a service     *)
(* with or without an API key; cache entries expire at any time.           *)

MaxFlowCalls == 3       \* flow calls in one behaviour

\* the provider errors, gives the empty text, a text that is not JSON, or
\* the fenced JSON of a roadmap, of a feedback or of a reply
FlowOutcomes ==
    { ProviderError, Answers(EmptyText), Answers(Text("", NoDoc, "")),
      Answers(Text("[fence]json", Json(AiRoadmap), "[fence]")),
      Answers(Text("[fence]json", Json(AiFeedback), "[fence]")),
      Answers(Text("[fence]json", Json(AiReply), "[fence]")) }

CallRoadmap(language, outcome) ==
    /\ gw.ncalls < MaxFlowCalls
    /\ LET got == generate_roadmap(gw.has_model, cache, language, "A0", 3,
                                   outcome)
       IN  /\ cache' = got.cache
           /\ gw' = called("generate_roadmap", TRUE, outcome, got)

CallFeedback(user_answer, outcome) ==
    /\ gw.ncalls < MaxFlowCalls
    /\ LET got == generate_task_feedback(gw.has_model, cache, user_answer,
                      Templates["t1"].correct_answer,
                      Templates["t1"].task_type, Templates["t1"].question,
                      outcome)
       IN  /\ cache' = got.cache
           /\ gw' = called("generate_task_feedback", TRUE, outcome, got)

CallDialogue(user_message, outcome) ==
    /\ gw.ncalls < MaxFlowCalls
    /\ LET got == generate_dialogue_response(gw.has_model, cache,
                      "scenario context", <<>>, user_message, "kazakh", "A0",
                      outcome)
       IN  /\ cache' = got.cache
           /\ gw' = called("generate_dialogue_response", FALSE, outcome, got)

NextFlows ==
    \/ \E language \in {"english", "spanish"}, outcome \in FlowOutcomes :
           /\ CallRoadmap(language, outcome)
           /\ UNCHANGED <<ledgerVars, attemptVars, placeVars, moduleVars,
                          dialogueVars, roadmapVars, evalVars>>
    \/ \E user_answer \in { <<"b">>, <<"c">> }, outcome \in FlowOutcomes :
           /\ CallFeedback(user_answer, outcome)
           /\ UNCHANGED <<ledgerVars, attemptVars, placeVars, moduleVars,
                          dialogueVars, roadmapVars, evalVars>>
    \/ \E user_message \in {"hello", "bye"}, outcome \in FlowOutcomes :
           /\ CallDialogue(user_message, outcome)
           /\ UNCHANGED <<ledgerVars, attemptVars, placeVars, moduleVars,
                          dialogueVars, roadmapVars, evalVars>>
    \/ \E key \in DOMAIN cache :
           /\ Expire(key)
           /\ UNCHANGED <<ledgerVars, attemptVars, placeVars, moduleVars,
                          dialogueVars, roadmapVars, evalVars>>

SpecFlows == InitFallback /\ [][NextFlows]_vars

\* the step is a call of one of the operations ops
FlowCall(ops) == gw'.ncalls = gw.ncalls + 1 /\ gw'.op \in ops

CachedFlows == {"generate_roadmap", "generate_task_feedback"}

\* the keys the schema of the operation requires
RequiredKeys(op) ==
    IF op = "generate_roadmap" THEN {"modules"}
    ELSE IF op = "generate_task_feedback" THEN {"rule", "example_contrast"}
    ELSE {"ai_response", "corrections"}

\* the call leaves the cache alone: no read, no write, same contents
CacheUntouched ==
    cache' = cache /\ ~gw'.cache_read /\ ~gw'.cache_written

\* a roadmap or feedback call whose provider call gave a non-empty text
\* has stored that text under its key
StoresResponse ==
    ( /\ FlowCall(CachedFlows)
      /\ gw'.provider_called
      /\ ~gw'.outcome.raises
      /\ truthy(gw'.outcome.text) )
    => /\ gw'.key \in DOMAIN cache'
       /\ cache'[gw'.key] = gw'.outcome.text
       /\ gw'.cache_written

\* a roadmap or feedback call that finds a text under its key is answered
\* from it, the object the text holds included, without the provider
ServesFromCache ==
    ( /\ FlowCall(CachedFlows)
      /\ gw'.key \in DOMAIN cache )
    => /\ ~gw'.provider_called
       /\ cache' = cache
       /\ LET held == loads(cache[gw'.key])
          IN  ( /\ ~held.raised
                /\ held.value.type = "dict"
                /\ RequiredKeys(gw'.op) \subseteq DOMAIN held.value.value )
              => gw'.result = Return(held.value)

\* C19 as stated: a dialogue call never reads or writes the cache and
\* always invokes the provider; a roadmap or feedback call stores a
\* non-empty response under its key and a later identical call is served
\* from it without the provider.
C19_DialogueUncached ==
    [][ /\ FlowCall({"generate_dialogue_response"})
           => CacheUntouched /\ gw'.provider_called
        /\ StoresResponse
        /\ ServesFromCache ]_vars

\* C19, amended: a dialogue call never reads or writes the cache and
\* invokes the provider on every call exactly when an API key is
\* configured (without a key no call of any flow reaches the provider); a
\* roadmap or feedback call stores a non-empty response under its key and
\* a later identical call is served from it without the provider.
C19_DialogueUncachedWithKey ==
    [][ /\ FlowCall({"generate_dialogue_response"})
           => CacheUntouched /\ (gw'.provider_called <=> gw.has_model)
        /\ ~gw.has_model => ~gw'.provider_called /\ cache' = cache
        /\ StoresResponse
        /\ ServesFromCache ]_vars

\* the third call, a dialogue call, went to the provider and left alone
\* the cache, which holds a text stored by an earlier call
C19_Witness ==
    /\ gw.has_model
    /\ gw.ncalls = 3
    /\ gw.op = "generate_dialogue_response"
    /\ gw.provider_called
    /\ ~gw.cache_read
    /\ ~gw.cache_written
    /\ DOMAIN cache # {}

----------------------------------------------------------------------------
(* Evaluation specification: an answer of up to MaxAnswerLen characters is *)
(* given at either call site, to an item or task of any kind, one kind     *)
(* unknown, whose canonical answer is a letter, a letter with a            *)
(* punctuation mark, or a punctuation mark.                                *)

MaxAnswerLen == 2

AnswerChars == {" ", "a", "A", "!", "?"}

GivenAnswers ==
    UNION { [1..n -> AnswerChars] : n \in 0..MaxAnswerLen }

CanonicalAnswers == { <<"a">>, <<"a", "!">>, <<"?">> }

Kinds == {"multiple_choice", "fill_blank", "cloze", "translation", "essay"}

InitEvaluate ==
    /\ gp = NoProfile
    /\ log = <<>>
    /\ IdleAttemptState
    /\ IdlePlacementState
    /\ IdleModuleState
    /\ sess = NoSession
    /\ turns = <<>>
    /\ dlg = [p \in Procs |-> IdleMessage]
    /\ ndlg = 0
    /\ IdleGatewayState
    /\ roadmaps = <<>>
    /\ gen = NoGeneration
    /\ \E site \in {"placement", "task"}, kind \in Kinds,
          user_answer \in GivenAnswers, correct_answer \in CanonicalAnswers :
           ev = [ pc |-> "input", site |-> site, kind |-> kind,
                  user_answer |-> user_answer,
                  correct_answer |-> correct_answer, result |-> FALSE ]

NextEvaluate ==
    \/ /\ EvaluatePlacementAnswer
       /\ UNCHANGED <<ledgerVars, attemptVars, placeVars, moduleVars,
                      dialogueVars, gatewayVars, roadmapVars>>
    \/ /\ EvaluateTaskAnswer
       /\ UNCHANGED <<ledgerVars, attemptVars, placeVars, moduleVars,
                      dialogueVars, gatewayVars, roadmapVars>>

SpecEvaluate == InitEvaluate /\ [][NextEvaluate]_vars

\* the kinds each call site knows
KnownKinds(site) ==
    IF site = "placement" THEN {"multiple_choice", "cloze", "translation"}
    ELSE {"multiple_choice", "fill_blank", "translation"}

\* the user answer after the normalization of the kind: trimmed and
\* lower-cased, for a fill_blank task without its punctuation too
Normalized(site, kind, answer) ==
    IF site = "task" /\ kind = "fill_blank"
    THEN remove_punctuation(strip(lower(answer)))
    ELSE strip(lower(answer))

OnlyPunctuation(answer) ==
    answer # <<>> /\ \A i \in 1..Len(answer) : answer[i] \in Punctuation

\* C20: at both call sites and for every kind, a user answer that is empty
\* after the kind's normalization evaluates to incorrect, an unknown kind
\* evaluates to incorrect, and a fill_blank task answer that consists only
\* of punctuation is not accepted.
C20_EmptyAnswerIncorrect ==
    ev.pc = "done" =>
        /\ Normalized(ev.site, ev.kind, ev.user_answer) = <<>> => ~ev.result
        /\ ev.kind \notin KnownKinds(ev.site) => ~ev.result
        /\ ( /\ ev.site = "task"
             /\ ev.kind = "fill_blank"
             /\ OnlyPunctuation(ev.user_answer) ) => ~ev.result

----------------------------------------------------------------------------
(* Roadmap specification: the users generate roadmaps for two languages,   *)
(* with and without the gateway, and ask for their current roadmap; each   *)
(* request runs to completion.  The provider errors, answers as asked, or  *)
(* answers with a list that holds the word modules.                        *)

RoadmapOutcomes ==
    ErrorOr(AiRoadmap)
        \cup {Answers(Text("", Json(List(<<Str("modules")>>)), ""))}

InitRoadmap == InitFallback

NextRoadmap ==
    \/ \E u \in Users, body \in FallbackBodies, outcome \in RoadmapOutcomes :
           /\ GenerateRoadmap(u, body, outcome)
           /\ UNCHANGED <<ledgerVars, attemptVars, placeVars, moduleVars,
                          dialogueVars, evalVars>>
    \/ \E u \in Users :
           /\ CurrentRoadmap(u)
           /\ UNCHANGED <<ledgerVars, attemptVars, placeVars, moduleVars,
                          dialogueVars, evalVars>>

SpecRoadmap == InitRoadmap /\ [][NextRoadmap]_vars

\* the active roadmaps of user u for a language
ActiveRoadmaps(rows, u, language) ==
    {i \in 1..Len(rows) :
        rows[i].user = u /\ rows[i].language = language /\ rows[i].is_active}

\* the step stores a roadmap
RoadmapStored == Len(roadmaps') = Len(roadmaps) + 1

\* C21: each user has at most one active roadmap per language; generating
\* a roadmap stores it active, deactivates the user's active roadmap of the
\* same language and leaves every other roadmap as it was.
C21_SingleActiveRoadmap ==
    /\ [](\A u \in Users : \A language \in {"english", "spanish"} :
              Cardinality(ActiveRoadmaps(roadmaps, u, language)) <= 1)
    /\ [][RoadmapStored =>
            LET new == Last(roadmaps')
            IN  /\ new.is_active
                /\ \A i \in 1..Len(roadmaps) :
                       IF /\ roadmaps[i].user = new.user
                          /\ roadmaps[i].language = new.language
                       THEN /\ ~roadmaps'[i].is_active
                            /\ roadmaps'[i] =
                                   [roadmaps[i] EXCEPT !.is_active = FALSE]
                       ELSE roadmaps'[i] = roadmaps[i]]_vars

\* u1's first english roadmap is inactive, the second is active, and the
\* roadmap of another user or language stored between them is still active
C21_Witness ==
    /\ Len(roadmaps) = 3
    /\ roadmaps[1].user = "u1" /\ roadmaps[1].language = "english"
    /\ roadmaps[3].user = "u1" /\ roadmaps[3].language = "english"
    /\ ~roadmaps[1].is_active
    /\ roadmaps[2].is_active
    /\ roadmaps[3].is_active

\* C22: the current-roadmap request of a user answers with that user's
\* active roadmap, or with not-found when the user has none; it does not
\* end in another error.
C22_CurrentRoadmapOrNotFound ==
    [][(gen'.n = gen.n + 1 /\ gen'.op = "current") =>
          LET mine == {i \in 1..Len(roadmaps) :
                          /\ roadmaps[i].user = gen'.reader
                          /\ roadmaps[i].is_active}
          IN  IF mine = {} THEN gen'.response = NotFound
              ELSE gen'.response = RoadmapFound /\ gen'.returned \in mine]_vars

----------------------------------------------------------------------------
(* Feedback specification: attempt requests, one at a time, on a service   *)
(* with or without an API key whose provider, when asked for feedback,     *)
(* errors or answers with a feedback object; gw.outcome holds what the     *)
(* provider answers.                                                       *)

InitFeedback ==
    /\ gp = NoProfile
    /\ log = <<>>
    /\ IdleAttemptState
    /\ IdlePlacementState
    /\ IdleModuleState
    /\ sess = NoSession
    /\ turns = <<>>
    /\ dlg = [p \in Procs |-> IdleMessage]
    /\ ndlg = 0
    /\ roadmaps = <<>>
    /\ gen = NoGeneration
    /\ ev = NoEvaluation
    /\ cache = EmptyCache
    /\ \E has_model \in BOOLEAN, outcome \in ErrorOr(AiFeedback) :
           gw = [NoCall EXCEPT !.has_model = has_model, !.outcome = outcome]

NextFeedback ==
    \E t \in TemplateIds : \E a \in TriedAnswers(t) : AttemptRequest(t, a)

SpecFeedback == InitFeedback /\ [][NextFeedback]_vars

\* the provider, asked for feedback, gives a valid feedback object
ProviderGivesFeedback ==
    /\ gw.has_model
    /\ ~gw.outcome.raises
    /\ LET doc == loads(gw.outcome.text)
       IN  /\ ~doc.raised
           /\ doc.value.type = "dict"
           /\ {"rule", "example_contrast"} \subseteq DOMAIN doc.value.value

\* C23: when the provider gives a valid feedback object, the feedback
\* stored on an incorrect attempt carries the rule and example_contrast of
\* that object, and its tip, instead of the template's static texts.
C23_AiFeedbackStored ==
    ProviderGivesFeedback =>
        \A i \in 1..Len(attempts) :
            ~attempts[i].is_correct =>
                LET given == loads(gw.outcome.text).value.value
                    stored == attempts[i].feedback.value
                IN  /\ stored["rule"] = given["rule"]
                    /\ stored["example_contrast"] = given["example_contrast"]
                    /\ "tip" \in DOMAIN stored
                    /\ stored["tip"] = given["tip"]

----------------------------------------------------------------------------
\* the step stores the turn of an accepted message of process p
MessageAccepted(p) ==
    dlg[p].pc = "save" /\ dlg'[p].pc = "idle" /\ dlg'[p].response = Created

\* C24: each accepted message stores a turn numbered previous turn_count
\* + 1; after it the session is active with ended_at unset while
\* turn_count < max_turns, and completed with ended_at set once turn_count
\* = max_turns.
C24_AutoComplete ==
    [][MessageAccepted(1) =>
          /\ turns' = Append(turns, Last(turns'))
          /\ Last(turns').turn_number = sess.turn_count + 1
          /\ sess'.turn_count = sess.turn_count + 1
          /\ sess'.turn_count <= sess'.max_turns
          /\ IF sess'.turn_count < sess'.max_turns
             THEN sess'.status = "active" /\ sess'.ended_at = NoTimestamp
             ELSE sess'.status = "completed" /\ sess'.ended_at # NoTimestamp
      ]_vars

\* the second message to a session of two turns was accepted and has
\* completed it
C24_Witness ==
    /\ sess.max_turns = 2
    /\ sess.turn_count = 2
    /\ sess.status = "completed"
    /\ sess.ended_at # NoTimestamp
    /\ Len(turns) = 2
    /\ turns[2].turn_number = 2
    /\ dlg[1].response = Created

----------------------------------------------------------------------------
(* Interleaved dialogue specification: two workers handle message and end  *)
(* requests on one session; the steps of a request are its session read,   *)
(* the gateway call and the transaction that stores the turn, and for an   *)
(* end request the session read and the save.  The unique index on         *)
(* (session, turn_number) makes the later of two inserts of one number     *)
(* fail, so the transaction of a turn is one step.                         *)

MessageTurns == {1, 2}      \* max_turns of the scenarios used here

NextDialogueRace ==
    \/ \E m \in MessageTurns :
           /\ StartSession(m)
           /\ UNCHANGED <<ledgerVars, attemptVars, placeVars, moduleVars,
                          gatewayVars, roadmapVars, evalVars>>
    \/ \E p \in Procs :
           /\ MessageRead(p, [has_message |-> TRUE, message |-> "hello"])
           /\ UNCHANGED <<ledgerVars, attemptVars, placeVars, moduleVars,
                          gatewayVars, roadmapVars, evalVars>>
    \/ \E p \in Procs, outcome \in ErrorOr(AiReply) :
           /\ MessageGenerate(p, outcome)
           /\ UNCHANGED <<ledgerVars, attemptVars, placeVars, moduleVars,
                          roadmapVars, evalVars>>
    \/ \E p \in Procs :
           /\ MessageSave(p)
           /\ UNCHANGED <<ledgerVars, attemptVars, placeVars, moduleVars,
                          gatewayVars, roadmapVars, evalVars>>
    \/ \E p \in Procs :
           /\ EndRead(p)
           /\ UNCHANGED <<ledgerVars, attemptVars, placeVars, moduleVars,
                          gatewayVars, roadmapVars, evalVars>>
    \/ \E p \in Procs :
           /\ EndSave(p)
           /\ UNCHANGED <<ledgerVars, attemptVars, placeVars, moduleVars,
                          gatewayVars, roadmapVars, evalVars>>

SpecDialogueRace == InitDialogue /\ [][NextDialogueRace]_vars

\* C25: the turns stored for the session never exceed max_turns, their
\* numbers are exactly 1..n, and turn_count equals n.
C25_TurnsCounted ==
    sess.exists =>
        /\ Len(turns) <= sess.max_turns
        /\ {turns[i].turn_number : i \in 1..Len(turns)} = 1..Len(turns)
        /\ \A i, j \in 1..Len(turns) :
               turns[i].turn_number = turns[j].turn_number => i = j
        /\ sess.turn_count = Len(turns)

\* C26: once the session is completed it does not become active again, its
\* ended_at stays set and no further turn is stored for it.
C26_CompletedStays ==
    [][sess.status = "completed" =>
          /\ sess'.status = "completed"
          /\ sess'.ended_at # NoTimestamp
          /\ turns' = turns]_vars

----------------------------------------------------------------------------
\* the attempt rows stored for task t
AttemptsOn(t) == SelectSeq(attempts, LAMBDA a : a.task = t)

\* C27: the attempts_count of a task instance equals the number of attempt
\* records stored for it.
C27_AttemptsCounted ==
    \A t \in TemplateIds :
        inst[t].exists => inst[t].attempts_count = Len(AttemptsOn(t))

----------------------------------------------------------------------------
\* C28: after any sequence of attempt requests the user's total XP equals
\* the sum of the values in the profile's per-day XP history.
C28_XpMatchesHistory ==
    (AllIdle /\ gp.exists) => gp.total_xp = SumFun(gp.xp_history)

\* C29: a task instance with at least one attempt has status completed
\* exactly when best_attempt_correct is true, which is exactly when some
\* stored attempt on it is correct.
C29_CompletedIffCorrect ==
    AllIdle =>
        \A t \in TemplateIds :
            (inst[t].exists /\ Len(AttemptsOn(t)) > 0) =>
                /\ inst[t].status = "completed" <=> inst[t].best_attempt_correct
                /\ inst[t].best_attempt_correct <=>
                       \E i \in 1..Len(attempts) :
                           attempts[i].task = t /\ attempts[i].is_correct

\* the module's criteria are not empty and name no accuracy_threshold
NoThreshold(m) ==
    /\ m.checkpoint_criteria # EmptyCriteria
    /\ "accuracy_threshold" \notin DOMAIN m.checkpoint_criteria

\* C30: for a module whose criteria are non-empty and do not contain
\* accuracy_threshold, check_completion returns false and leaves the
\* module not completed, whatever the completed tasks and the accuracy.
C30_DefaultThresholdNeverMet ==
    /\ [](NoThreshold(mod) => ~mod.is_completed)
    /\ [][(CheckStep /\ NoThreshold(mod)) =>
            /\ ~Last(checks')
            /\ mod' = mod]_vars

\* the module asks for one completed task only; its task t1 is completed,
\* every attempt is correct, and the evaluation has returned false
C30_Witness ==
    /\ mod.checkpoint_criteria = [min_tasks_completed |-> 1]
    /\ "t1" \in mod.tasks
    /\ inst["t1"].status = "completed"
    /\ Len(attempts) > 0
    /\ \A i \in 1..Len(attempts) : attempts[i].is_correct
    /\ Len(checks) > 0
    /\ ~Last(checks)
    /\ ~mod.is_completed

====
